---- MODULE Spec2Model ----
(***************************************************************************)
(* csvpeek: the filter expression engine (filter.rs), the value classifier *)
(* (types.rs), the type inferencer (schema.rs), the statistics aggregator  *)
(* (stats.rs) and the column-not-found suggestion (error.rs, cli.rs).      *)
(*                                                                         *)
(* Text is a sequence of one-character strings, restricted to ASCII, so a  *)
(* char index and a byte index coincide.  An f64 is an exact rational, NaN *)
(* or a signed infinity; the bounded inputs are short decimals, on which   *)
(* the sums the code forms are exact in f64 as well.                       *)
(***************************************************************************)
EXTENDS Integers, Sequences, FiniteSets, TLC

VARIABLES
    cells,        \* stats.rs: the cells fed so far to one ColumnAccumulator
    acc,          \* stats.rs: the ColumnAccumulator
    phase,        \* stats.rs: "streaming", "finalized" or "aborted" (panic)
    result,       \* stats.rs: the ColumnStats of finalize, once finalized
    tcells,       \* schema.rs: the cells fed so far to one ColumnTypeAccumulator
    tacc,         \* schema.rs: the ColumnTypeAccumulator
    schema,       \* schema.rs: the ColumnSchema of finalize, once finalized
    headers,      \* the header row the filter or the selection is resolved against
    pieces,       \* the fragments the filter text was written from
    expr_str,     \* filter.rs: the filter text handed to Filter::parse
    filter,       \* filter.rs: what Filter::parse returned (or that it panicked)
    record,       \* filter.rs: the row last handed to Filter::matches
    verdict,      \* filter.rs: what Filter::matches returned for that row
    cols_str,     \* cli.rs: the column list handed to parse_columns
    selection,    \* cli.rs: what parse_columns returned (or that it panicked)
    cell_text,    \* types.rs: the cell text last handed to the classifier
    classified,   \* types.rs: what parse_value and is_null returned for it
    command,      \* main.rs: "none", or the command whose row loop is running
    rows,         \* main.rs: the records that loop has read so far
    cli_args,     \* main.rs: the options of the invocation of run_summary
    reader,       \* csv_reader.rs: the CsvReader over the records of the file
    run_pc,       \* main.rs: where run_summary stands
    target_cols,  \* main.rs: the column names the collector is built for
    collector,    \* stats.rs: the StatsCollector, its accumulators and positions
    total_rows,   \* main.rs: the records the row loop has read
    matched_rows, \* main.rs: the records that passed the filter
    events,       \* main.rs: the calls run_summary has made, in order
    outcome       \* main.rs: the error run_summary ended with, or what it rendered

vars == <<cells, acc, phase, result, tcells, tacc, schema,
          headers, pieces, expr_str, filter, record, verdict, cols_str, selection,
          cell_text, classified, command, rows,
          cli_args, reader, run_pc, target_cols, collector, total_rows,
          matched_rows, events, outcome>>

statsVars == <<cells, acc, phase, result>>
schemaVars == <<tcells, tacc, schema>>
filterVars == <<headers, pieces, expr_str, filter, record, verdict>>
columnVars == <<cols_str, selection>>
classVars == <<cell_text, classified>>
runVars == <<command, rows>>
flowVars == <<cli_args, reader, run_pc, target_cols, collector, total_rows,
              matched_rows, events, outcome>>

(***************************************************************************)
(* Option<T>                                                               *)
(***************************************************************************)
None == [some |-> FALSE]
Some(v) == [some |-> TRUE, v |-> v]

(***************************************************************************)
(* Text                                                                    *)
(***************************************************************************)
\* The printable ASCII characters in code order, from 32 (space) to 126
\* (the grave accent, 96, is spelled out: it cannot stand in a string here).
AsciiPrintable ==
    <<" ", "!", "\"", "#", "$", "%", "&", "'", "(", ")", "*", "+", ",", "-", ".", "/",
      "0", "1", "2", "3", "4", "5", "6", "7", "8", "9", ":", ";", "<", "=", ">", "?",
      "@", "A", "B", "C", "D", "E", "F", "G", "H", "I", "J", "K", "L", "M", "N", "O",
      "P", "Q", "R", "S", "T", "U", "V", "W", "X", "Y", "Z", "[", "\\", "]", "^", "_",
      "grave", "a", "b", "c", "d", "e", "f", "g", "h", "i", "j", "k", "l", "m", "n", "o",
      "p", "q", "r", "s", "t", "u", "v", "w", "x", "y", "z", "{", "|", "}", "~">>

\* The byte of each character: tab is 9, the printable ones follow the table.
ByteTable ==
    [c \in {AsciiPrintable[i] : i \in 1..Len(AsciiPrintable)} \cup {"\t"} |->
        IF c = "\t" THEN 9
        ELSE 31 + (CHOOSE i \in 1..Len(AsciiPrintable) : AsciiPrintable[i] = c)]

ByteOf(c) == ByteTable[c]

\* char::is_whitespace on the modelled characters.
IsWhitespace(c) == c \in {" ", "\t"}

IsDigit(c) == ByteOf(c) >= 48 /\ ByteOf(c) <= 57

DigitVal(c) == ByteOf(c) - 48

\* char::to_lowercase on ASCII: A..Z move by 32.
LowerChar(c) ==
    IF ByteOf(c) >= 65 /\ ByteOf(c) <= 90
    THEN AsciiPrintable[ByteOf(c) + 32 - 31]
    ELSE c

to_lowercase(s) == [i \in 1..Len(s) |-> LowerChar(s[i])]

RECURSIVE trim_start(_)
trim_start(s) ==
    IF s # <<>> /\ IsWhitespace(Head(s)) THEN trim_start(Tail(s)) ELSE s

RECURSIVE trim_end(_)
trim_end(s) ==
    IF s # <<>> /\ IsWhitespace(s[Len(s)])
    THEN trim_end(SubSeq(s, 1, Len(s) - 1))
    ELSE s

\* str::trim
trim(s) == trim_end(trim_start(s))

\* str::starts_with / str::ends_with
starts_with(s, p) == Len(p) <= Len(s) /\ SubSeq(s, 1, Len(p)) = p
ends_with(s, p) ==
    Len(p) <= Len(s) /\ SubSeq(s, Len(s) - Len(p) + 1, Len(s)) = p

\* str::find: the 0-based offset of the first occurrence of p in s, or -1.
str_find(s, p) ==
    LET hits == {i \in 0..(Len(s) - Len(p)) : SubSeq(s, i + 1, i + Len(p)) = p}
    IN IF hits = {} THEN -1 ELSE CHOOSE i \in hits : \A j \in hits : i <= j

\* str::contains
str_contains(s, p) == str_find(s, p) >= 0

\* The byte-lexicographic order of str: a < b.
RECURSIVE str_lt(_, _)
str_lt(a, b) ==
    IF b = <<>> THEN FALSE
    ELSE IF a = <<>> THEN TRUE
    ELSE IF ByteOf(Head(a)) # ByteOf(Head(b))
         THEN ByteOf(Head(a)) < ByteOf(Head(b))
         ELSE str_lt(Tail(a), Tail(b))

(***************************************************************************)
(* f64 as an exact rational, NaN or a signed infinity                      *)
(***************************************************************************)
Abs(n) == IF n < 0 THEN -n ELSE n

RECURSIVE Gcd(_, _)
Gcd(a, b) == IF b = 0 THEN a ELSE Gcd(b, a % b)

\* The finite value n/d (d # 0), in lowest terms with a positive denominator.
Fin(n, d) ==
    LET g == Gcd(Abs(n), Abs(d))
        s == IF d < 0 THEN -1 ELSE 1
    IN [k |-> "fin", n |-> (s * n) \div g, d |-> (s * d) \div g]

NaN == [k |-> "nan", n |-> 0, d |-> 1]
Inf(neg) == [k |-> "inf", n |-> IF neg THEN -1 ELSE 1, d |-> 1]
Zero == Fin(0, 1)

FSign(a) == IF a.n < 0 THEN -1 ELSE IF a.n > 0 THEN 1 ELSE 0

FNeg(a) == IF a.k = "nan" THEN NaN ELSE [a EXCEPT !.n = -a.n]

FAdd(a, b) ==
    IF a.k = "nan" \/ b.k = "nan" THEN NaN
    ELSE IF a.k = "inf" /\ b.k = "inf" THEN (IF a.n = b.n THEN a ELSE NaN)
    ELSE IF a.k = "inf" THEN a
    ELSE IF b.k = "inf" THEN b
    ELSE Fin(a.n * b.d + b.n * a.d, a.d * b.d)

FSub(a, b) == FAdd(a, FNeg(b))

FMul(a, b) ==
    IF a.k = "nan" \/ b.k = "nan" THEN NaN
    ELSE IF a.k = "inf" \/ b.k = "inf"
         THEN (IF FSign(a) * FSign(b) = 0 THEN NaN
               ELSE Inf(FSign(a) * FSign(b) < 0))
    ELSE Fin(a.n * b.n, a.d * b.d)

FDiv(a, b) ==
    IF a.k = "nan" \/ b.k = "nan" THEN NaN
    ELSE IF a.k = "inf" /\ b.k = "inf" THEN NaN
    ELSE IF a.k = "inf" THEN Inf((a.n < 0) # (b.n < 0))
    ELSE IF b.k = "inf" THEN Zero
    ELSE IF b.n = 0
         THEN (IF a.n = 0 THEN NaN ELSE Inf(a.n < 0))
    ELSE Fin(a.n * b.d, a.d * b.n)

\* a < b on f64: false whenever a NaN is involved.
FLt(a, b) ==
    IF a.k = "nan" \/ b.k = "nan" THEN FALSE
    ELSE IF a.k = "inf" THEN a.n < 0 /\ ~(b.k = "inf" /\ b.n < 0)
    ELSE IF b.k = "inf" THEN b.n > 0
    ELSE a.n * b.d < b.n * a.d

FGt(a, b) == FLt(b, a)

\* f64::partial_cmp: None when a NaN is involved.
partial_cmp(a, b) ==
    IF a.k = "nan" \/ b.k = "nan" THEN None
    ELSE Some(IF FLt(a, b) THEN -1 ELSE IF FLt(b, a) THEN 1 ELSE 0)

is_finite(a) == a.k = "fin"

FromInt(i) == Fin(i, 1)

(***************************************************************************)
(* str::parse::<i64> and str::parse::<f64>                                 *)
(***************************************************************************)
AllDigits(s) == \A i \in 1..Len(s) : IsDigit(s[i])

RECURSIVE DigitsVal(_)
DigitsVal(s) ==
    IF s = <<>> THEN 0
    ELSE DigitsVal(SubSeq(s, 1, Len(s) - 1)) * 10 + DigitVal(s[Len(s)])

RECURSIVE Pow10(_)
Pow10(k) == IF k = 0 THEN 1 ELSE 10 * Pow10(k - 1)

HasSign(s) == s # <<>> /\ Head(s) \in {"+", "-"}
Unsigned(s) == IF HasSign(s) THEN Tail(s) ELSE s
IsNegative(s) == s # <<>> /\ Head(s) = "-"

\* i64::from_str: an optional sign and one or more digits.  The bounded
\* texts are far too short to leave the 64-bit range.
parse_i64(s) ==
    LET u == Unsigned(s) IN
    IF u # <<>> /\ AllDigits(u)
    THEN [ok |-> TRUE, v |-> IF IsNegative(s) THEN -DigitsVal(u) ELSE DigitsVal(u)]
    ELSE [ok |-> FALSE, v |-> 0]

\* The decimal mantissa digits[.digits] with at least one digit.
MantissaOk(m) ==
    LET dot == str_find(m, <<".">>)
        ip == IF dot < 0 THEN m ELSE SubSeq(m, 1, dot)
        fp == IF dot < 0 THEN <<>> ELSE SubSeq(m, dot + 2, Len(m))
    IN AllDigits(ip) /\ AllDigits(fp) /\ Len(ip) + Len(fp) > 0

MantissaVal(m) ==
    LET dot == str_find(m, <<".">>)
        ip == IF dot < 0 THEN m ELSE SubSeq(m, 1, dot)
        fp == IF dot < 0 THEN <<>> ELSE SubSeq(m, dot + 2, Len(m))
    IN Fin(DigitsVal(ip) * Pow10(Len(fp)) + DigitsVal(fp), Pow10(Len(fp)))

ExponentOk(e) == Unsigned(e) # <<>> /\ AllDigits(Unsigned(e))

ExponentVal(e) ==
    IF IsNegative(e) THEN Fin(1, Pow10(DigitsVal(Unsigned(e))))
    ELSE Fin(Pow10(DigitsVal(Unsigned(e))), 1)

\* f64::from_str: an optional sign, then nan, inf or infinity in any case,
\* or a decimal number with an optional exponent.
parse_f64(s) ==
    LET u == Unsigned(s)
        l == to_lowercase(u)
        epos == str_find(l, <<"e">>)
        m == IF epos < 0 THEN u ELSE SubSeq(u, 1, epos)
        e == IF epos < 0 THEN <<>> ELSE SubSeq(u, epos + 2, Len(u))
    IN
    IF l = <<"n", "a", "n">> THEN [ok |-> TRUE, v |-> NaN]
    ELSE IF l \in {<<"i", "n", "f">>, <<"i", "n", "f", "i", "n", "i", "t", "y">>}
         THEN [ok |-> TRUE, v |-> Inf(IsNegative(s))]
    ELSE IF MantissaOk(m) /\ (epos < 0 \/ ExponentOk(e))
         THEN [ok |-> TRUE,
               v |-> LET a == IF epos < 0 THEN MantissaVal(m)
                              ELSE FMul(MantissaVal(m), ExponentVal(e))
                     IN IF IsNegative(s) THEN FNeg(a) ELSE a]
    ELSE [ok |-> FALSE, v |-> Zero]

(***************************************************************************)
(* types.rs: the value classifier                                          *)
(***************************************************************************)
DataType == {"Integer", "Float", "Boolean", "String"}

\* parse_value, its DataType and the kind of its Value.
parse_value(s) ==
    LET trimmed == trim(s)
        lower == to_lowercase(trimmed)
    IN
    IF trimmed = <<>> THEN [dtype |-> "String", value |-> "Null"]
    ELSE IF lower \in {<<"t", "r", "u", "e">>, <<"f", "a", "l", "s", "e">>}
         THEN [dtype |-> "Boolean", value |-> "Boolean"]
    ELSE IF parse_i64(trimmed).ok
         THEN [dtype |-> "Integer", value |-> "Integer"]
    ELSE IF parse_f64(trimmed).ok /\ is_finite(parse_f64(trimmed).v)
         THEN [dtype |-> "Float", value |-> "Float"]
    ELSE [dtype |-> "String", value |-> "String"]

\* is_null comparing the tokens as written, without lowering the case.
is_null_as_written(s) ==
    trim(s) \in {<<>>, <<"n", "u", "l", "l">>, <<"n", "a">>, <<"n", "/", "a">>}

\* is_null
is_null(s) ==
    LET trimmed == to_lowercase(trim(s))
    IN \/ trimmed = <<>>
       \/ trimmed = <<"n", "u", "l", "l">>
       \/ trimmed = <<"n", "a">>
       \/ trimmed = <<"n", "/", "a">>

(***************************************************************************)
(* stats.rs: the statistics aggregator of one column                       *)
(***************************************************************************)
EmptyCounts == [key \in {} |-> 0]

\* ColumnAccumulator::new
NewColumnAccumulator(name) ==
    [name |-> name, count |-> 0, null_count |-> 0, data_type |-> None,
     sum |-> Zero, sum_squares |-> Zero, numeric_count |-> 0,
     min_numeric |-> None, max_numeric |-> None,
     min_string |-> None, max_string |-> None,
     min_len |-> None, max_len |-> None,
     unique_values |-> {}, numeric_values |-> <<>>,
     value_counts |-> EmptyCounts]

\* The match of add_value on (self.data_type, dtype), arm by arm.
promote(current, dtype) ==
    IF ~current.some THEN dtype
    ELSE IF current.v = "Integer" /\ dtype = "Float" THEN "Float"
    ELSE IF current.v = "Float" /\ dtype = "Integer" THEN "Float"
    ELSE IF current.v = "Integer" /\ dtype = "Integer" THEN "Integer"
    ELSE IF current.v = "Float" /\ dtype = "Float" THEN "Float"
    ELSE IF current.v = "Boolean" /\ dtype = "Boolean" THEN "Boolean"
    ELSE IF dtype = "String" THEN "String"
    ELSE IF current.v = "String" THEN "String"
    ELSE current.v

\* HashMap entry(key).or_insert(0) += 1
bump(counts, key) ==
    [k \in DOMAIN counts \cup {key} |->
        IF k = key
        THEN (IF key \in DOMAIN counts THEN counts[key] + 1 ELSE 1)
        ELSE counts[k]]

\* The numeric part of add_value adding the number itself, not its square,
\* to sum_squares.
add_numeric_unsquared(a, num) ==
    [a EXCEPT
        !.sum = FAdd(a.sum, num),
        !.sum_squares = FAdd(a.sum_squares, num),
        !.numeric_count = a.numeric_count + 1,
        !.numeric_values = Append(a.numeric_values, num),
        !.min_numeric =
            Some(IF ~a.min_numeric.some THEN num
                 ELSE IF FLt(num, a.min_numeric.v) THEN num ELSE a.min_numeric.v),
        !.max_numeric =
            Some(IF ~a.max_numeric.some THEN num
                 ELSE IF FGt(num, a.max_numeric.v) THEN num ELSE a.max_numeric.v)]

\* The numeric part of add_value, taken when trimmed.parse::<f64>() is Ok.
add_numeric(a, num) ==
    [a EXCEPT
        !.sum = FAdd(a.sum, num),
        !.sum_squares = FAdd(a.sum_squares, FMul(num, num)),
        !.numeric_count = a.numeric_count + 1,
        !.numeric_values = Append(a.numeric_values, num),
        !.min_numeric =
            Some(IF ~a.min_numeric.some THEN num
                 ELSE IF FLt(num, a.min_numeric.v) THEN num ELSE a.min_numeric.v),
        !.max_numeric =
            Some(IF ~a.max_numeric.some THEN num
                 ELSE IF FGt(num, a.max_numeric.v) THEN num ELSE a.max_numeric.v)]

\* The string part of add_value with the frequency entry set to 1 at each
\* occurrence instead of incremented.
add_string_uncounted(a, trimmed) ==
    LET len == Len(trimmed) IN
    [a EXCEPT
        !.min_len =
            Some(IF ~a.min_len.some THEN len
                 ELSE IF len < a.min_len.v THEN len ELSE a.min_len.v),
        !.max_len =
            Some(IF ~a.max_len.some THEN len
                 ELSE IF len > a.max_len.v THEN len ELSE a.max_len.v),
        !.unique_values = a.unique_values \cup {trimmed},
        !.value_counts = [k \in DOMAIN a.value_counts \cup {trimmed} |->
                             IF k = trimmed THEN 1 ELSE a.value_counts[k]],
        !.min_string =
            Some(IF ~a.min_string.some THEN trimmed
                 ELSE IF str_lt(trimmed, a.min_string.v) THEN trimmed
                 ELSE a.min_string.v),
        !.max_string =
            Some(IF ~a.max_string.some THEN trimmed
                 ELSE IF str_lt(a.max_string.v, trimmed) THEN trimmed
                 ELSE a.max_string.v)]

\* The string part of add_value.
add_string(a, trimmed) ==
    LET len == Len(trimmed) IN
    [a EXCEPT
        !.min_len =
            Some(IF ~a.min_len.some THEN len
                 ELSE IF len < a.min_len.v THEN len ELSE a.min_len.v),
        !.max_len =
            Some(IF ~a.max_len.some THEN len
                 ELSE IF len > a.max_len.v THEN len ELSE a.max_len.v),
        !.unique_values = a.unique_values \cup {trimmed},
        !.value_counts = bump(a.value_counts, trimmed),
        !.min_string =
            Some(IF ~a.min_string.some THEN trimmed
                 ELSE IF str_lt(trimmed, a.min_string.v) THEN trimmed
                 ELSE a.min_string.v),
        !.max_string =
            Some(IF ~a.max_string.some THEN trimmed
                 ELSE IF str_lt(a.max_string.v, trimmed) THEN trimmed
                 ELSE a.max_string.v)]

\* ColumnAccumulator::add_value
add_value(a, value) ==
    LET counted == [a EXCEPT !.count = a.count + 1]
        trimmed == trim(value)
        dtype == parse_value(trimmed).dtype
        typed == [counted EXCEPT !.data_type = Some(promote(a.data_type, dtype))]
        num == parse_f64(trimmed)
        numbered == IF num.ok THEN add_numeric(typed, num.v) ELSE typed
    IN
    IF is_null(value)
    THEN [counted EXCEPT !.null_count = a.null_count + 1]
    ELSE add_string(numbered, trimmed)

\* slice::sort_by(|a, b| a.partial_cmp(b).unwrap()) panics as soon as one
\* comparison involves a NaN; a slice of two or more elements has every
\* element compared at least once, a shorter one is returned untouched.
sort_panics(values) ==
    Len(values) >= 2 /\ \E i \in 1..Len(values) : values[i].k = "nan"

RECURSIVE insert_sorted(_, _)
insert_sorted(sorted, x) ==
    IF sorted = <<>> THEN <<x>>
    ELSE IF FLt(x, Head(sorted)) THEN <<x>> \o sorted
    ELSE <<Head(sorted)>> \o insert_sorted(Tail(sorted), x)

\* The ascending order sort_by leaves (a stable insertion of each element).
RECURSIVE sort_values(_)
sort_values(values) ==
    IF values = <<>> THEN <<>>
    ELSE insert_sorted(sort_values(SubSeq(values, 1, Len(values) - 1)),
                       values[Len(values)])

\* percentile returning the element at the floor of the rank, without the
\* blend with the next one.
percentile_at_floor(sorted_data, p) ==
    IF sorted_data = <<>> THEN Zero
    ELSE sorted_data[((p * (Len(sorted_data) - 1)) \div 100) + 1]

\* percentile(sorted_data, p) with rank = (p / 100) * (n - 1); indices 0-based.
percentile(sorted_data, p) ==
    LET n == Len(sorted_data)
        rank == Fin(p * (n - 1), 100)
        lower_idx == rank.n \div rank.d
        upper_idx == IF rank.n % rank.d = 0 THEN lower_idx ELSE lower_idx + 1
        weight == FSub(rank, FromInt(lower_idx))
    IN
    IF n = 0 THEN Zero
    ELSE IF n = 1 THEN sorted_data[1]
    ELSE IF lower_idx = upper_idx THEN sorted_data[lower_idx + 1]
    ELSE FAdd(FMul(sorted_data[lower_idx + 1], FSub(FromInt(1), weight)),
              FMul(sorted_data[upper_idx + 1], weight))

RECURSIVE nat_text(_)
nat_text(n) ==
    IF n < 10 THEN <<AsciiPrintable[n + 48 - 31]>>
    ELSE nat_text(n \div 10) \o <<AsciiPrintable[(n % 10) + 48 - 31]>>

\* Display of an integer.
int_text(i) == IF i < 0 THEN <<"-">> \o nat_text(-i) ELSE nat_text(i)

RECURSIVE trim_end_matches(_, _)
trim_end_matches(s, c) ==
    IF s # <<>> /\ s[Len(s)] = c
    THEN trim_end_matches(SubSeq(s, 1, Len(s) - 1), c)
    ELSE s

\* The digits of n, left-padded with zeros to width w.
RECURSIVE pad_digits(_, _)
pad_digits(n, w) ==
    IF w = 0 THEN <<>>
    ELSE pad_digits(n \div 10, w - 1) \o <<AsciiPrintable[(n % 10) + 48 - 31]>>

\* format!("{:.6}", v): six decimals, rounded to nearest.
fixed6_text(v) ==
    IF v.k = "nan" THEN <<"N", "a", "N">>
    ELSE IF v.k = "inf"
         THEN (IF v.n < 0 THEN <<"-", "i", "n", "f">> ELSE <<"i", "n", "f">>)
    ELSE LET micro == (2 * Abs(v.n) * 1000000 + v.d) \div (2 * v.d)
         IN (IF v.n < 0 THEN <<"-">> ELSE <<>>)
            \o nat_text(micro \div 1000000) \o <<".">>
            \o pad_digits(micro % 1000000, 6)

\* v as i64: truncation toward zero, NaN to 0 (the infinities saturate,
\* beyond the modelled integers).
as_i64(v) ==
    IF v.k # "fin" THEN 0
    ELSE IF v.n < 0 THEN -((-v.n) \div v.d) ELSE v.n \div v.d

\* format_number
format_number(v, dtype) ==
    IF dtype = "Integer" THEN int_text(as_i64(v))
    ELSE trim_end_matches(trim_end_matches(fixed6_text(v), "0"), ".")

\* f64::sqrt: NaN below zero; a value that is no rational square is kept
\* as the root of its radicand.
is_square(n) == \E r \in 0..n : r * r = n
int_root(n) == CHOOSE r \in 0..n : r * r = n
FSqrt(a) ==
    IF a.k = "nan" \/ a.n < 0 THEN NaN
    ELSE IF a.k = "inf" THEN a
    ELSE IF is_square(a.n) /\ is_square(a.d) THEN Fin(int_root(a.n), int_root(a.d))
    ELSE [k |-> "sqrt", n |-> a.n, d |-> a.d]

\* sort_by(|a, b| b.1.cmp(&a.1)): a stable sort by descending count.
RECURSIVE insert_by_count(_, _)
insert_by_count(sorted, e) ==
    IF sorted = <<>> THEN <<e>>
    ELSE IF e.n > sorted[Len(sorted)].n
         THEN insert_by_count(SubSeq(sorted, 1, Len(sorted) - 1), e)
              \o <<sorted[Len(sorted)]>>
    ELSE sorted \o <<e>>

RECURSIVE sort_by_count(_)
sort_by_count(entries) ==
    IF entries = <<>> THEN <<>>
    ELSE insert_by_count(sort_by_count(SubSeq(entries, 1, Len(entries) - 1)),
                         entries[Len(entries)])

\* The number of most frequent values finalize keeps: take(5).
TopK == 5

\* top_values: the entries of value_counts in the order the HashMap iterates
\* them (iter_order, any order of its keys), sorted, cut to TopK.
top_values(counts, iter_order) ==
    LET entries == [i \in 1..Len(iter_order) |->
                        [value |-> iter_order[i], n |-> counts[iter_order[i]]]]
        sorted == sort_by_count(entries)
    IN IF DOMAIN counts = {} THEN None
       ELSE Some(SubSeq(sorted, 1, IF Len(sorted) < TopK THEN Len(sorted) ELSE TopK))

\* The orders in which a HashMap of these keys may iterate.
IterOrders(keys) ==
    {o \in [1..Cardinality(keys) -> keys] :
        \A i, j \in 1..Cardinality(keys) : i # j => o[i] # o[j]}

\* ColumnAccumulator::finalize, when it returns.
finalize_stats(a, iter_order) ==
    LET total == a.count
        null_rate == IF total > 0
                     THEN FMul(FDiv(FromInt(a.null_count), FromInt(total)), FromInt(100))
                     ELSE Zero
        data_type == IF a.data_type.some THEN a.data_type.v ELSE "String"
        sorted == sort_values(a.numeric_values)
        has_values == a.numeric_values # <<>>
        numeric == data_type \in {"Integer", "Float"}
        n == FromInt(a.numeric_count)
        variance == FDiv(FSub(a.sum_squares, FDiv(FMul(a.sum, a.sum), n)),
                         FSub(n, FromInt(1)))
    IN
    [name |-> a.name,
     data_type |-> data_type,
     count |-> total - a.null_count,
     null_count |-> a.null_count,
     null_rate |-> null_rate,
     min |-> IF numeric
             THEN (IF a.min_numeric.some
                   THEN Some(format_number(a.min_numeric.v, data_type)) ELSE None)
             ELSE a.min_string,
     max |-> IF numeric
             THEN (IF a.max_numeric.some
                   THEN Some(format_number(a.max_numeric.v, data_type)) ELSE None)
             ELSE a.max_string,
     mean |-> IF numeric /\ a.numeric_count > 0 THEN Some(FDiv(a.sum, n)) ELSE None,
     sum |-> IF numeric /\ a.numeric_count > 0 THEN Some(a.sum) ELSE None,
     std |-> IF numeric /\ a.numeric_count > 1 THEN Some(FSqrt(variance)) ELSE None,
     min_len |-> a.min_len,
     max_len |-> a.max_len,
     unique_count |-> Some(Cardinality(a.unique_values)),
     median |-> IF has_values THEN Some(percentile(sorted, 50)) ELSE None,
     p25 |-> IF has_values THEN Some(percentile(sorted, 25)) ELSE None,
     p75 |-> IF has_values THEN Some(percentile(sorted, 75)) ELSE None,
     top_values |-> top_values(a.value_counts, iter_order)]

\* ColumnAccumulator::finalize panics where the sort of the buffer does.
finalize_panics(a) == sort_panics(a.numeric_values)

(***************************************************************************)
(* schema.rs: the type inferencer of one column                            *)
(***************************************************************************)
\* ColumnTypeAccumulator::new
NewColumnTypeAccumulator(name) ==
    [name |-> name, total_count |-> 0, null_count |-> 0, integer_count |-> 0,
     float_count |-> 0, boolean_count |-> 0, string_count |-> 0]

\* add_value without the return after a null cell: the cell goes on to
\* the classifier and is counted under its type as well.
schema_add_value_no_return(t, value) ==
    LET counted == [t EXCEPT !.total_count = t.total_count + 1,
                             !.null_count = IF is_null(value) THEN t.null_count + 1
                                            ELSE t.null_count]
        dtype == parse_value(value).dtype
    IN
    IF dtype = "Integer"
    THEN [counted EXCEPT !.integer_count = t.integer_count + 1]
    ELSE IF dtype = "Float"
         THEN [counted EXCEPT !.float_count = t.float_count + 1]
    ELSE IF dtype = "Boolean"
         THEN [counted EXCEPT !.boolean_count = t.boolean_count + 1]
    ELSE [counted EXCEPT !.string_count = t.string_count + 1]

\* ColumnTypeAccumulator::add_value
schema_add_value(t, value) ==
    LET counted == [t EXCEPT !.total_count = t.total_count + 1]
        dtype == parse_value(value).dtype
    IN
    IF is_null(value) THEN [counted EXCEPT !.null_count = t.null_count + 1]
    ELSE IF dtype = "Integer"
         THEN [counted EXCEPT !.integer_count = t.integer_count + 1]
    ELSE IF dtype = "Float"
         THEN [counted EXCEPT !.float_count = t.float_count + 1]
    ELSE IF dtype = "Boolean"
         THEN [counted EXCEPT !.boolean_count = t.boolean_count + 1]
    ELSE [counted EXCEPT !.string_count = t.string_count + 1]

\* infer_type with the Float test moved ahead of the Integer test.
infer_type_float_first(t) ==
    LET non_null == t.total_count - t.null_count IN
    IF non_null = 0 THEN "String"
    ELSE IF t.integer_count + t.float_count = non_null THEN "Float"
    ELSE IF t.integer_count = non_null THEN "Integer"
    ELSE IF t.boolean_count = non_null THEN "Boolean"
    ELSE "String"

\* ColumnTypeAccumulator::infer_type
infer_type(t) ==
    LET non_null == t.total_count - t.null_count IN
    IF non_null = 0 THEN "String"
    ELSE IF t.integer_count = non_null THEN "Integer"
    ELSE IF t.integer_count + t.float_count = non_null THEN "Float"
    ELSE IF t.boolean_count = non_null THEN "Boolean"
    ELSE "String"

\* ColumnTypeAccumulator::finalize
finalize_schema(t) ==
    [name |-> t.name,
     inferred_type |-> infer_type(t),
     null_count |-> t.null_count,
     total_count |-> t.total_count,
     null_rate |-> IF t.total_count > 0
                   THEN FMul(FDiv(FromInt(t.null_count), FromInt(t.total_count)),
                             FromInt(100))
                   ELSE Zero]

(***************************************************************************)
(* Result<T>: a returned value, a returned error, or an abort (panic)      *)
(***************************************************************************)
Ok(v) == [ok |-> TRUE, v |-> v]
InvalidFilter == [ok |-> FALSE, err |-> "InvalidFilter"]
ColumnNotFound(name, suggestion) ==
    [ok |-> FALSE, err |-> "ColumnNotFound", name |-> name, suggestion |-> suggestion]
Panic == [ok |-> FALSE, err |-> "panic"]

\* &s[from..to] on 0-based byte offsets; Rust panics when from > to.
slice(s, from, to) == SubSeq(s, from + 1, to)
slice_from(s, from) == SubSeq(s, from + 1, Len(s))

(***************************************************************************)
(* filter.rs: the expression parser                                        *)
(***************************************************************************)
Range(f) == {f[i] : i \in DOMAIN f}

\* The HashMap of Filter::parse: collecting (name, index) pairs in header
\* order, a later pair replaces an earlier one with the same name.
column_indices(hdr) ==
    [h \in Range(hdr) |->
        (CHOOSE i \in DOMAIN hdr :
            hdr[i] = h /\ \A j \in DOMAIN hdr : hdr[j] = h => j <= i) - 1]

\* The scan of find_operator from char i (1-based) on.
RECURSIVE find_operator_from(_, _, _, _, _, _)
find_operator_from(s, op, i, depth, in_string, escape) ==
    IF i > Len(s) THEN -1
    ELSE IF escape THEN find_operator_from(s, op, i + 1, depth, in_string, FALSE)
    ELSE IF s[i] = "\\" THEN find_operator_from(s, op, i + 1, depth, in_string, TRUE)
    ELSE IF s[i] = "\"" THEN find_operator_from(s, op, i + 1, depth, ~in_string, FALSE)
    ELSE IF s[i] = "(" /\ ~in_string
         THEN find_operator_from(s, op, i + 1, depth + 1, in_string, FALSE)
    ELSE IF s[i] = ")" /\ ~in_string
         THEN find_operator_from(s, op, i + 1, depth - 1, in_string, FALSE)
    ELSE IF ~in_string /\ depth = 0 /\ i + Len(op) - 1 <= Len(s)
            /\ SubSeq(s, i, i + Len(op) - 1) = op
         THEN i - 1
    ELSE find_operator_from(s, op, i + 1, depth, in_string, FALSE)

\* find_operator taking the first op wherever it stands, quoted or not.
find_operator_anywhere(s, op) == str_find(s, op)

\* find_operator: the 0-based offset of the first op outside strings and
\* parentheses, or -1 for None.
find_operator(s, op) == find_operator_from(s, op, 1, 0, FALSE, FALSE)

\* validate_column letting every name through.
validate_column_unchecked(col, columns) == Ok(TRUE)

\* validate_column
validate_column(col, columns) ==
    IF col \notin DOMAIN columns THEN ColumnNotFound(col, None) ELSE Ok(TRUE)

\* The quote stripping shared by parse_func_args, parse_array and
\* parse_comparison: val[1..val.len() - 1] when val starts and ends with a
\* double quote, which for the lone quote is the slice [1..0], a panic.
quoted(val) == starts_with(val, <<"\"">>) /\ ends_with(val, <<"\"">>)
unquote_panics(val) == quoted(val) /\ Len(val) < 2
unquote(val) == IF quoted(val) THEN slice(val, 1, Len(val) - 1) ELSE val

\* The scan of parse_func_args from char i (1-based) on: the 0-based offset
\* of the first comma outside strings and brackets, or -1.
RECURSIVE func_args_comma(_, _, _, _, _)
func_args_comma(s, i, depth, in_string, escape) ==
    IF i > Len(s) THEN -1
    ELSE IF escape THEN func_args_comma(s, i + 1, depth, in_string, FALSE)
    ELSE IF s[i] = "\\" THEN func_args_comma(s, i + 1, depth, in_string, TRUE)
    ELSE IF s[i] = "\"" THEN func_args_comma(s, i + 1, depth, ~in_string, FALSE)
    ELSE IF s[i] \in {"[", "("} /\ ~in_string
         THEN func_args_comma(s, i + 1, depth + 1, in_string, FALSE)
    ELSE IF s[i] \in {"]", ")"} /\ ~in_string
         THEN func_args_comma(s, i + 1, depth - 1, in_string, FALSE)
    ELSE IF s[i] = "," /\ ~in_string /\ depth = 0 THEN i - 1
    ELSE func_args_comma(s, i + 1, depth, in_string, FALSE)

\* parse_func_args
parse_func_args(s) ==
    LET i == func_args_comma(s, 1, 0, FALSE, FALSE)
        col == trim(slice(s, 0, i))
        val == trim(slice_from(s, i + 1))
    IN
    IF i < 0 THEN InvalidFilter
    ELSE IF unquote_panics(val) THEN Panic
    ELSE Ok([col |-> col, val |-> unquote(val)])

\* str::split(','): the pieces between the commas, empty ones included.
RECURSIVE split_comma(_)
split_comma(s) ==
    LET pos == str_find(s, <<",">>) IN
    IF pos < 0 THEN <<s>>
    ELSE <<slice(s, 0, pos)>> \o split_comma(slice_from(s, pos + 1))

\* The loop of parse_array over the trimmed items: an empty item is dropped.
RECURSIVE array_items(_)
array_items(items) ==
    IF items = <<>> THEN <<>>
    ELSE LET item == unquote(trim(Head(items)))
         IN (IF item # <<>> THEN <<item>> ELSE <<>>) \o array_items(Tail(items))

\* parse_array
parse_array(str) ==
    LET s == trim(str)
        items == split_comma(slice(s, 1, Len(s) - 1))
    IN
    IF ~starts_with(s, <<"[">>) \/ ~ends_with(s, <<"]">>) THEN InvalidFilter
    ELSE IF \E k \in 1..Len(items) : unquote_panics(trim(items[k])) THEN Panic
    ELSE Ok(array_items(items))

\* Regex::new of the regex crate, on the patterns of the bounded inputs,
\* which are literal text or hold an unclosed group: a pattern whose
\* parentheses do not pair up is rejected, any other is taken as written.
regex_new(pattern) ==
    IF Cardinality({i \in 1..Len(pattern) : pattern[i] = "("})
       # Cardinality({i \in 1..Len(pattern) : pattern[i] = ")"})
    THEN InvalidFilter
    ELSE Ok(pattern)

\* Regex::is_match of a literal pattern: an unanchored search.
regex_is_match(regex, cell) == str_contains(cell, regex)

\* The operators of parse_comparison in the order it tries them.
CompareOps ==
    <<[text |-> <<"=", "=">>, op |-> "Eq"], [text |-> <<"!", "=">>, op |-> "Ne"],
      [text |-> <<"<", "=">>, op |-> "Le"], [text |-> <<">", "=">>, op |-> "Ge"],
      [text |-> <<"<">>, op |-> "Lt"], [text |-> <<">">>, op |-> "Gt"]>>

\* The right-hand literal of parse_comparison.
compare_value(val_str) ==
    IF quoted(val_str) THEN [num |-> FALSE, s |-> unquote(val_str)]
    ELSE IF parse_f64(val_str).ok THEN [num |-> TRUE, n |-> parse_f64(val_str).v]
    ELSE [num |-> FALSE, s |-> val_str]

\* parse_comparison: the first operator of CompareOps that occurs in s, at
\* its first occurrence.
parse_comparison(s, columns) ==
    LET found == {k \in 1..Len(CompareOps) : str_find(s, CompareOps[k].text) >= 0} IN
    IF found = {} THEN InvalidFilter
    ELSE
      LET k == CHOOSE x \in found : \A y \in found : x <= y
          pos == str_find(s, CompareOps[k].text)
          col == trim(slice(s, 0, pos))
          val_str == trim(slice_from(s, pos + Len(CompareOps[k].text)))
      IN
      IF ~validate_column(col, columns).ok THEN validate_column(col, columns)
      ELSE IF unquote_panics(val_str) THEN Panic
      ELSE Ok([tag |-> "Compare", col |-> col, op |-> CompareOps[k].op,
               val |-> compare_value(val_str)])

FnContains == <<"c", "o", "n", "t", "a", "i", "n", "s", "(">>
FnIn == <<"i", "n", "(">>
FnIsNull == <<"i", "s", "_", "n", "u", "l", "l", "(">>
FnIsNotNull == <<"i", "s", "_", "n", "o", "t", "_", "n", "u", "l", "l", "(">>
FnMatches == <<"m", "a", "t", "c", "h", "e", "s", "(">>

is_call(s, fn) == starts_with(s, fn) /\ ends_with(s, <<")">>)

\* The two-argument functions of parse_function: parse_func_args, then
\* validate_column, then the node.
parse_contains(s, columns) ==
    LET args == parse_func_args(slice(s, Len(FnContains), Len(s) - 1)) IN
    IF ~args.ok THEN args
    ELSE IF ~validate_column(args.v.col, columns).ok
         THEN validate_column(args.v.col, columns)
    ELSE Ok([tag |-> "Contains", col |-> args.v.col, s |-> args.v.val])

parse_in(s, columns) ==
    LET args == parse_func_args(slice(s, Len(FnIn), Len(s) - 1)) IN
    IF ~args.ok THEN args
    ELSE IF ~validate_column(args.v.col, columns).ok
         THEN validate_column(args.v.col, columns)
    ELSE IF ~parse_array(args.v.val).ok THEN parse_array(args.v.val)
    ELSE Ok([tag |-> "In", col |-> args.v.col, vals |-> parse_array(args.v.val).v])

parse_matches(s, columns) ==
    LET args == parse_func_args(slice(s, Len(FnMatches), Len(s) - 1)) IN
    IF ~args.ok THEN args
    ELSE IF ~validate_column(args.v.col, columns).ok
         THEN validate_column(args.v.col, columns)
    ELSE IF ~regex_new(args.v.val).ok THEN InvalidFilter
    ELSE Ok([tag |-> "Matches", col |-> args.v.col, re |-> regex_new(args.v.val).v])

\* The one-argument functions of parse_function.
parse_null_test(s, columns, fn, tag) ==
    LET col == trim(slice(s, Len(fn), Len(s) - 1)) IN
    IF ~validate_column(col, columns).ok THEN validate_column(col, columns)
    ELSE Ok([tag |-> tag, col |-> col])

\* parse_function: Ok(Some(node)), an error, or Ok(None) (here Ok of the
\* node "NoFunction") when s is no call of a known function.
parse_function(str, columns) ==
    LET s == trim(str) IN
    IF is_call(s, FnContains) THEN parse_contains(s, columns)
    ELSE IF is_call(s, FnIn) THEN parse_in(s, columns)
    ELSE IF is_call(s, FnIsNull) THEN parse_null_test(s, columns, FnIsNull, "IsNull")
    ELSE IF is_call(s, FnIsNotNull)
         THEN parse_null_test(s, columns, FnIsNotNull, "IsNotNull")
    ELSE IF is_call(s, FnMatches) THEN parse_matches(s, columns)
    ELSE Ok([tag |-> "NoFunction"])

\* parse_expr
RECURSIVE parse_expr(_, _)
\* The two sides of a binary operator found at offset pos: the left side
\* first, its error returned before the right side is parsed.
parse_binary(s, pos, tag, columns) ==
    LET left == parse_expr(slice(s, 0, pos), columns) IN
    IF ~left.ok THEN left
    ELSE LET right == parse_expr(slice_from(s, pos + 2), columns) IN
         IF ~right.ok THEN right
         ELSE Ok([tag |-> tag, l |-> left.v, r |-> right.v])

parse_expr(str, columns) ==
    LET s == trim(str)
        or_pos == find_operator(s, <<"|", "|">>)
        and_pos == find_operator(s, <<"&", "&">>)
    IN
    IF or_pos >= 0 THEN parse_binary(s, or_pos, "Or", columns)
    ELSE IF and_pos >= 0 THEN parse_binary(s, and_pos, "And", columns)
    ELSE IF starts_with(s, <<"!">>) /\ ~starts_with(s, <<"!", "=">>)
         THEN LET inner == parse_expr(slice_from(s, 1), columns) IN
              IF ~inner.ok THEN inner ELSE Ok([tag |-> "Not", e |-> inner.v])
    ELSE IF starts_with(s, <<"(">>) /\ ends_with(s, <<")">>)
         THEN parse_expr(slice(s, 1, Len(s) - 1), columns)
    ELSE LET func_expr == parse_function(s, columns) IN
         IF ~func_expr.ok THEN func_expr
         ELSE IF func_expr.v.tag # "NoFunction" THEN func_expr
         ELSE parse_comparison(s, columns)

\* Filter::parse
Filter_parse(text, hdr) ==
    LET columns == column_indices(hdr)
        expr == parse_expr(text, columns)
    IN IF ~expr.ok THEN expr
       ELSE Ok([expr |-> expr.v, column_indices |-> columns])

(***************************************************************************)
(* filter.rs: the expression evaluator                                     *)
(***************************************************************************)
\* record.get(idx) falling back on the last cell of a short record.
cell_at_or_last(rec, idx) ==
    IF idx + 1 \in DOMAIN rec THEN rec[idx + 1]
    ELSE IF rec = <<>> THEN <<>> ELSE rec[Len(rec)]

\* columns.get(col).copied().unwrap_or(0), then record.get(idx).unwrap_or("")
column_index(col, columns) == IF col \in DOMAIN columns THEN columns[col] ELSE 0
cell_at(rec, idx) == IF idx + 1 \in DOMAIN rec THEN rec[idx + 1] ELSE <<>>

\* (cell_num - n).abs() against f64::EPSILON, 2^-52: two distinct values of
\* the bounded inputs differ by far more, so only a zero difference is below.
below_epsilon(diff) == diff.k = "fin" /\ diff.n = 0
not_below_epsilon(diff) == diff.k = "inf" \/ (diff.k = "fin" /\ diff.n # 0)

\* eval_compare answering != with true, and the other operators with
\* false, when the cell is no number.
eval_compare_unequal_on_mismatch(cell, op, val) ==
    IF val.num
    THEN LET cell_num == parse_f64(trim(cell)) IN
         IF ~cell_num.ok THEN op = "Ne"
         ELSE (op \in {"Eq", "Le", "Ge"}) = below_epsilon(FSub(cell_num.v, val.n))
    ELSE (op \in {"Eq", "Le", "Ge"}) = (cell = val.s)

\* eval_compare
eval_compare(cell, op, val) ==
    IF val.num
    THEN LET cell_num == parse_f64(trim(cell)) IN
         IF ~cell_num.ok THEN FALSE
         ELSE CASE op = "Eq" -> below_epsilon(FSub(cell_num.v, val.n))
                [] op = "Ne" -> not_below_epsilon(FSub(cell_num.v, val.n))
                [] op = "Lt" -> FLt(cell_num.v, val.n)
                [] op = "Le" -> FLt(cell_num.v, val.n) \/ partial_cmp(cell_num.v, val.n) = Some(0)
                [] op = "Gt" -> FGt(cell_num.v, val.n)
                [] op = "Ge" -> FGt(cell_num.v, val.n) \/ partial_cmp(cell_num.v, val.n) = Some(0)
    ELSE CASE op = "Eq" -> cell = val.s
           [] op = "Ne" -> cell # val.s
           [] op = "Lt" -> str_lt(cell, val.s)
           [] op = "Le" -> ~str_lt(val.s, cell)
           [] op = "Gt" -> str_lt(val.s, cell)
           [] op = "Ge" -> ~str_lt(cell, val.s)

\* eval_expr: the boolean inside the Ok it always returns.
RECURSIVE eval_expr(_, _, _)
eval_expr(expr, rec, columns) ==
    IF expr.tag = "And"
    THEN eval_expr(expr.l, rec, columns) /\ eval_expr(expr.r, rec, columns)
    ELSE IF expr.tag = "Or"
    THEN eval_expr(expr.l, rec, columns) \/ eval_expr(expr.r, rec, columns)
    ELSE IF expr.tag = "Not" THEN ~eval_expr(expr.e, rec, columns)
    ELSE LET cell == cell_at(rec, column_index(expr.col, columns)) IN
         CASE expr.tag = "Compare" -> eval_compare(cell, expr.op, expr.val)
           [] expr.tag = "Contains" -> str_contains(cell, expr.s)
           [] expr.tag = "Matches" -> regex_is_match(expr.re, cell)
           [] expr.tag = "In" -> \E k \in 1..Len(expr.vals) : expr.vals[k] = cell
           [] expr.tag = "IsNull" -> is_null(cell)
           [] expr.tag = "IsNotNull" -> ~is_null(cell)

\* Filter::matches
Filter_matches(f, rec) == Ok(eval_expr(f.expr, rec, f.column_indices))

(***************************************************************************)
(* error.rs: the similar-name suggestion                                   *)
(***************************************************************************)
Min2(a, b) == IF a < b THEN a ELSE b

\* levenshtein_distance: the table dp, filled row by row.
levenshtein_distance(a, b) ==
    LET m == Len(a)
        n == Len(b)
        dp[i \in 0..m, j \in 0..n] ==
            IF i = 0 THEN j
            ELSE IF j = 0 THEN i
            ELSE Min2(Min2(dp[i - 1, j] + 1, dp[i, j - 1] + 1),
                      dp[i - 1, j - 1] + (IF a[i] = b[j] THEN 0 ELSE 1))
    IN IF m = 0 THEN n ELSE IF n = 0 THEN m ELSE dp[m, n]

\* find_similar_column: the first header equal to name ignoring case, else
\* the first header of least distance among those within distance 2.
find_similar_column(name, hdr) ==
    LET name_lower == to_lowercase(name)
        same == {i \in DOMAIN hdr : to_lowercase(hdr[i]) = name_lower}
        dist(i) == levenshtein_distance(name_lower, to_lowercase(hdr[i]))
        near == {i \in DOMAIN hdr : dist(i) <= 2}
    IN
    IF same # {} THEN Some(hdr[CHOOSE i \in same : \A j \in same : i <= j])
    ELSE IF near # {}
         THEN Some(hdr[CHOOSE i \in near :
                          \A j \in near : dist(i) < dist(j) \/ (dist(i) = dist(j) /\ i <= j)])
    ELSE None

(***************************************************************************)
(* cli.rs: column selection                                                *)
(***************************************************************************)
\* usize::from_str: an optional plus sign and one or more digits.
parse_usize(s) ==
    LET u == IF s # <<>> /\ Head(s) = "+" THEN Tail(s) ELSE s IN
    IF u # <<>> /\ AllDigits(u) THEN [ok |-> TRUE, v |-> DigitsVal(u)]
    ELSE [ok |-> FALSE, v |-> 0]

\* CsvpeekError::ColumnIndexOutOfRange { index, max: headers.len() - 1 }.
\* On an empty header the subtraction underflows: with overflow checks the
\* build panics, without them max wraps to usize::MAX, written here as -1
\* marked wrapped.
ColumnIndexOutOfRange(index, hdr, overflow_checks) ==
    IF Len(hdr) = 0 /\ overflow_checks THEN Panic
    ELSE [ok |-> FALSE, err |-> "ColumnIndexOutOfRange",
          index |-> index, max |-> Len(hdr) - 1, wrapped |-> Len(hdr) = 0]

\* One form of parse_range: start and end around the separator found at pos.
range_of(s, pos, sep_len, inclusive, hdr, overflow_checks) ==
    LET start == parse_usize(trim(slice(s, 0, pos)))
        end == parse_usize(trim(slice_from(s, pos + sep_len)))
        last == IF inclusive THEN end.v ELSE end.v - 1
    IN
    IF ~start.ok \/ ~end.ok THEN InvalidFilter
    ELSE IF last >= Len(hdr)
         THEN ColumnIndexOutOfRange(last, hdr, overflow_checks)
    ELSE Ok(Some([i \in 1..(last - start.v + 1) |-> hdr[start.v + i]]))

\* parse_range: Ok(Some(names)), an error, or Ok(None) when s is no range.
parse_range(s, hdr, overflow_checks) ==
    IF str_find(s, <<".", ".", "=">>) >= 0
    THEN range_of(s, str_find(s, <<".", ".", "=">>), 3, TRUE, hdr, overflow_checks)
    ELSE IF str_find(s, <<".", ".">>) >= 0
    THEN range_of(s, str_find(s, <<".", ".">>), 2, FALSE, hdr, overflow_checks)
    ELSE Ok(None)

\* The loop body with the name looked up before the index is tried.
parse_column_name_first(token, hdr, overflow_checks) ==
    LET col == trim(token)
        range == parse_range(col, hdr, overflow_checks)
        idx == parse_usize(col)
    IN
    IF col = <<>> THEN Ok(<<>>)
    ELSE IF ~range.ok THEN range
    ELSE IF range.v.some THEN Ok(range.v.v)
    ELSE IF \E i \in DOMAIN hdr : hdr[i] = col THEN Ok(<<col>>)
    ELSE IF idx.ok
         THEN (IF idx.v < Len(hdr) THEN Ok(<<hdr[idx.v + 1]>>)
               ELSE ColumnIndexOutOfRange(idx.v, hdr, overflow_checks))
    ELSE ColumnNotFound(col, find_similar_column(col, hdr))

\* The body of the loop of parse_columns for one token: the names it adds.
parse_column(token, hdr, overflow_checks) ==
    LET col == trim(token)
        range == parse_range(col, hdr, overflow_checks)
        idx == parse_usize(col)
    IN
    IF col = <<>> THEN Ok(<<>>)
    ELSE IF ~range.ok THEN range
    ELSE IF range.v.some THEN Ok(range.v.v)
    ELSE IF idx.ok
         THEN (IF idx.v < Len(hdr) THEN Ok(<<hdr[idx.v + 1]>>)
               ELSE ColumnIndexOutOfRange(idx.v, hdr, overflow_checks))
    ELSE IF \E i \in DOMAIN hdr : hdr[i] = col THEN Ok(<<col>>)
    ELSE ColumnNotFound(col, find_similar_column(col, hdr))

\* The loop of parse_columns: the first error ends it.
RECURSIVE parse_tokens(_, _, _)
parse_tokens(tokens, hdr, overflow_checks) ==
    IF tokens = <<>> THEN Ok(<<>>)
    ELSE LET first == parse_column(Head(tokens), hdr, overflow_checks) IN
         IF ~first.ok THEN first
         ELSE LET rest == parse_tokens(Tail(tokens), hdr, overflow_checks) IN
              IF ~rest.ok THEN rest ELSE Ok(first.v \o rest.v)

\* parse_columns
parse_columns(text, hdr, overflow_checks) ==
    parse_tokens(split_comma(text), hdr, overflow_checks)

(***************************************************************************)
(* stats.rs: the collector                                                 *)
(***************************************************************************)
\* header_vec.iter().position(|h| h == col), 0-based, or -1 for None.
position(hdr, col) ==
    LET hits == {i \in DOMAIN hdr : hdr[i] = col} IN
    IF hits = {} THEN -1 ELSE (CHOOSE i \in hits : \A j \in hits : i <= j) - 1

\* StatsCollector::new: an accumulator and a position for each target
\* column the header has.
RECURSIVE StatsCollector_new(_, _)
StatsCollector_new(targets, hdr) ==
    IF targets = <<>> THEN <<>>
    ELSE (IF position(hdr, Head(targets)) >= 0
          THEN <<[acc |-> NewColumnAccumulator(Head(targets)),
                  idx |-> position(hdr, Head(targets))]>>
          ELSE <<>>) \o StatsCollector_new(Tail(targets), hdr)

\* StatsCollector::add_record: each accumulator takes the cell at its
\* position, the empty text when the record is shorter.
add_record(coll, rec) ==
    [k \in DOMAIN coll |->
        [coll[k] EXCEPT !.acc = add_value(coll[k].acc, cell_at(rec, coll[k].idx))]]

(***************************************************************************)
(* csv_reader.rs: the reader                                               *)
(***************************************************************************)
\* CsvReader::from_path_with_options: a reader at the start of the records
\* of the file, no header cached.
NewCsvReader(file, no_header) ==
    [file |-> file, pos |-> 0, headers |-> None, generated_headers |-> no_header]

\* format!("col{}", i)
generated_name(i) == <<"c", "o", "l">> \o nat_text(i)

\* CsvReader::headers: the cached header, or else the header read from the
\* stream: generated from the field count of the record records().next()
\* yields, or the first record itself; the record read is consumed.
CsvReader_headers(rd) ==
    IF rd.headers.some THEN [reader |-> rd, headers |-> rd.headers.v]
    ELSE IF rd.pos >= Len(rd.file)
         THEN [reader |-> [rd EXCEPT !.headers = Some(<<>>)], headers |-> <<>>]
    ELSE IF rd.generated_headers
         THEN LET h == [i \in 1..Len(rd.file[rd.pos + 1]) |-> generated_name(i - 1)] IN
              [reader |-> [rd EXCEPT !.headers = Some(h), !.pos = rd.pos + 1], headers |-> h]
    ELSE LET h == rd.file[rd.pos + 1] IN
         [reader |-> [rd EXCEPT !.headers = Some(h), !.pos = rd.pos + 1], headers |-> h]

(***************************************************************************)
(* main.rs: run_summary                                                    *)
(***************************************************************************)
\* The target columns falling back to the whole header when the column
\* list is in error.
resolve_columns_or_all(a, hdr, overflow_checks) ==
    IF a.cols.some /\ parse_columns(a.cols.v, hdr, overflow_checks).ok
    THEN parse_columns(a.cols.v, hdr, overflow_checks)
    ELSE Ok(hdr)

\* The target columns of run_summary: those of --cols, or the whole header.
resolve_columns(a, hdr, overflow_checks) ==
    IF a.cols.some THEN parse_columns(a.cols.v, hdr, overflow_checks)
    ELSE Ok(hdr)

\* Some(Filter::parse(..)?): the compiled filter, or the error handed on.
some_filter(parsed) == IF parsed.ok THEN Ok(Some(parsed.v)) ELSE parsed

\* The filter of run_summary: that of --where compiled, or none.
compile_filter(a, hdr) ==
    IF a.where_clause.some
    THEN some_filter(Filter_parse(a.where_clause.v, hdr))
    ELSE Ok(None)

\* A turn of the row loop that hands the record to the collector before
\* the filter is asked.
summary_row_ungated(st, f, rec) ==
    LET taken == [st EXCEPT !.total_rows = st.total_rows + 1,
                            !.collector = add_record(st.collector, rec)] IN
    IF f.some /\ ~Filter_matches(f.v, rec).v THEN taken
    ELSE [taken EXCEPT !.matched_rows = st.matched_rows + 1]

\* One turn of the row loop of run_summary on the counters and the
\* collector: the record is counted, skipped when a filter is given and
\* does not match, and otherwise counted as matched and handed on.
summary_row(st, f, rec) ==
    LET counted == [st EXCEPT !.total_rows = st.total_rows + 1] IN
    IF f.some /\ ~Filter_matches(f.v, rec).v THEN counted
    ELSE [counted EXCEPT !.matched_rows = st.matched_rows + 1,
                         !.collector = add_record(st.collector, rec)]

(***************************************************************************)
(* The bounded inputs                                                      *)
(***************************************************************************)
\* The longest cell stream fed to one accumulator.
MaxCells == 3

\* The longest cell stream when both accumulators run side by side.
MaxPairCells == 2

\* The most terms (atoms joined by && or ||) of a filter text.
MaxTerms == 2

\* The most terms of a filter text written from well-formed atoms only.
MaxChain == 3

\* The most comma-separated tokens of a column list.
MaxTokens == 2

\* The cell texts a stream is drawn from: integers, a float, a boolean, an
\* opaque string, nulls, padded text, and the tokens the float parser
\* accepts although they are no finite number.
CellTexts ==
    {<<"1">>, <<"3">>, <<"2", ".", "5">>, <<"t", "r", "u", "e">>, <<"x">>,
     <<>>, <<"N", "A">>, <<" ", "1", " ">>, <<"N", "a", "N">>, <<"i", "n", "f">>}

\* The longest cell text handed to the classifier on its own.
MaxCellLen == 4

\* The characters those texts are written from, and the texts: enough for
\* the null tokens in either case, padded, and for integers and nan.
CellChars == {" ", "n", "a", "N", "/", "u", "l", "1"}
CellStrings == UNION {[1..n -> CellChars] : n \in 0..MaxCellLen}

ColumnName == <<"a">>

\* The header rows: plain, and with the name b at two positions.
Headers ==
    {<<<<"n", "a", "m", "e">>, <<"b">>>>,
     <<<<"b">>, <<"n", "a", "m", "e">>, <<"b">>>>}

\* The rows a compiled filter is evaluated on: shorter than, as long as and
\* longer than the headers.
Rows ==
    {<<>>,
     <<<<"x">>>>,
     <<<<"x">>, <<"5">>>>,
     <<<<"5">>, <<"x">>>>,
     <<<<>>, <<"x">>, <<"5">>>>,
     <<<<"5">>, <<"x", "|", "|", "y">>, <<"0">>, <<"x">>>>}

\* Well-formed atoms over the columns name and b.
NameEqX == <<"n", "a", "m", "e", " ", "=", "=", " ", "\"", "x", "\"">>
BGt1 == <<"b", " ", ">", " ", "1">>
IsNullB == <<"i", "s", "_", "n", "u", "l", "l", "(", "b", ")">>
NameEqQuotedOps ==
    <<"n", "a", "m", "e", "=", "=", "\"", "x", "|", "|", "y", "\"">>
GroupOr ==
    <<"(", "b", ">", "1", "|", "|", "n", "a", "m", "e", "=", "=", "x", ")">>
NotIsNullB == <<"!">> \o IsNullB

WellFormedAtoms == {NameEqX, BGt1, IsNullB, NameEqQuotedOps, GroupOr, NotIsNullB}

\* Atoms the parser must reject or that miss a column, and further calls.
OtherAtoms ==
    {<<>>,
     <<"n", "a", "m", "e">>,
     <<"n", "m", "a", "e", " ", "=", "=", " ", "\"", "x", "\"">>,
     <<"N", "a", "m", "e", "=", "=", "1">>,
     <<"z", "z", "z", "z", "z", "<", "1">>,
     <<"n", "a", "m", "e", " ", "=", "=", " ", "\"">>,
     <<"(", "b", ">", "1">>,
     <<"c", "o", "n", "t", "a", "i", "n", "s", "(", "n", "a", "m", "e", ",", " ", "\"", ")">>,
     <<"c", "o", "n", "t", "a", "i", "n", "s", "(", "n", "a", "m", "e", ",", "\"", "x", "\"", ")">>,
     <<"c", "o", "n", "t", "a", "i", "n", "s", "(", "n", "a", "m", "e", ")">>,
     <<"i", "n", "(", "b", ",", "[", "\"", "5", "\"", ",", "x", "]", ")">>,
     <<"i", "n", "(", "b", ",", "[", "5", ")">>,
     <<"i", "n", "(", "b", ",", "[", "\"", "]", ")">>,
     <<"m", "a", "t", "c", "h", "e", "s", "(", "n", "a", "m", "e", ",", "\"", "(", "\"", ")">>,
     <<"m", "a", "t", "c", "h", "e", "s", "(", "n", "a", "m", "e", ",", "\"", "x", "\"", ")">>,
     <<"i", "s", "_", "n", "o", "t", "_", "n", "u", "l", "l", "(", "c", ")">>}

AndOp == <<" ", "&", "&", " ">>
OrOp == <<"|", "|">>

\* The fragment sequences atom (op atom)* of at most max atoms.
RECURSIVE Chains(_, _)
Chains(atoms, max) ==
    IF max = 0 THEN {}
    ELSE {<<a>> : a \in atoms}
         \cup {c \o <<op, a>> : c \in Chains(atoms, max - 1), op \in {AndOp, OrOp},
                               a \in atoms}

\* The text written from a sequence of fragments.
RECURSIVE Flatten(_)
Flatten(ps) == IF ps = <<>> THEN <<>> ELSE Head(ps) \o Flatten(Tail(ps))

\* The most cells of a row built cell by cell.
MaxRowLen == 3

\* The null tests over the header columns, and the rows they are evaluated
\* on: null tokens in either case, padded, and cells that are no null.
ColName == <<"n", "a", "m", "e">>
ColB == <<"b">>
NullTest(fn, c) == fn \o c \o <<")">>
NullTests == {<<NullTest(fn, c)>> : fn \in {FnIsNull, FnIsNotNull}, c \in {ColName, ColB}}
NullCells ==
    {<<>>, <<"N", "A">>, <<"n", "/", "a">>, <<"N", "U", "L", "L">>,
     <<"n", "o", "n", "e">>, <<"0">>, <<" ", "n", "a", " ">>}
RowsOf(cell_set) == UNION {[1..n -> cell_set] : n \in 0..MaxRowLen}

\* The comparisons of a column with a numeric literal, one per operator,
\* and the cells of the rows they are evaluated on: numbers, padded or
\* not, and texts that are no number.
Comparison(c, k, lit) == c \o <<" ">> \o CompareOps[k].text \o <<" ">> \o lit
NumericLiterals == {<<"1">>, <<"2", ".", "5">>, <<"-", "1", "e", "1">>}
Comparisons ==
    {<<Comparison(c, k, lit)>> :
        c \in {ColName, ColB}, k \in 1..Len(CompareOps), lit \in NumericLiterals}
CompareCells ==
    {<<>>, <<"x">>, <<"1">>, <<" ", "1", " ">>, <<"2", ".", "5">>, <<"1", "x">>,
     <<"t", "r", "u", "e">>}

\* The comparisons of a column with a quoted literal: the text a literal
\* denotes is plain, holds operator tokens, or holds double quotes, which
\* are written with a backslash before each.
PlainLiterals == {<<"x">>}
OperatorLiterals ==
    {<<"a", "=", "=", "b">>, <<"x", ">", "=", "y">>, <<"a", "<", "b">>}
QuoteLiterals ==
    {<<"S", "a", "y", " ", "\"", "h", "i", "\"">>, <<"a", "\"", "b">>}
RECURSIVE Escape(_)
Escape(text) ==
    IF text = <<>> THEN <<>>
    ELSE (IF Head(text) = "\"" THEN <<"\\", "\"">> ELSE <<Head(text)>>) \o Escape(Tail(text))
Quote(text) == <<"\"">> \o text \o <<"\"">>
QuotedComparisons ==
    {<<Comparison(c, k, Quote(Escape(lit)))>> :
        c \in {ColName, ColB}, k \in 1..Len(CompareOps),
        lit \in PlainLiterals \cup OperatorLiterals \cup QuoteLiterals}
QuotedCells ==
    {<<"x">>, <<"a", "=", "=", "b">>, <<"a", "\"", "b">>, <<"a", "\\", "\"", "b">>}

\* The most elements of an array literal.
MaxElems == 2

\* The elements of an array literal, quoted or bare, the in calls written
\* from them, and the cells of the rows they are evaluated on.
Elements ==
    {[text |-> <<"5">>, quoted |-> TRUE], [text |-> <<"x">>, quoted |-> FALSE],
     [text |-> <<"a", ",", "b">>, quoted |-> TRUE], [text |-> <<>>, quoted |-> TRUE]}
ElementLists == UNION {[1..n -> Elements] : n \in 1..MaxElems}
ElementText(e) == IF e.quoted THEN <<"\"">> \o e.text \o <<"\"">> ELSE e.text
RECURSIVE ArrayBody(_)
ArrayBody(elems) ==
    IF Len(elems) = 1 THEN ElementText(elems[1])
    ELSE ElementText(elems[1]) \o <<",", " ">> \o ArrayBody(Tail(elems))
InCall(c, elems) == FnIn \o c \o <<",", " ", "[">> \o ArrayBody(elems) \o <<"]", ")">>
InCalls == {<<InCall(c, elems)>> : c \in {ColName, ColB}, elems \in ElementLists}
InCells == {<<>>, <<"5">>, <<" ", "5">>, <<"x">>, <<"a", ",", "b">>}

\* The cells of a numeric column with an occasional text, boolean or null,
\* and the longer streams of the worked examples.
NumericTexts ==
    {<<"1">>, <<"3">>, <<"1", "0">>, <<"2", ".", "5">>, <<"-", "4">>,
     <<"x">>, <<"t", "r", "u", "e">>, <<>>, <<"i", "n", "f">>, <<"N", "a", "N">>}
QuartileStream == <<<<"1", "0">>, <<"2", "0">>, <<"3", "0">>, <<"4", "0">>>>
DeviationStream ==
    <<<<"2">>, <<"4">>, <<"4">>, <<"4">>, <<"5">>, <<"5">>, <<"7">>, <<"9">>>>
ExampleStreams == {QuartileStream, DeviationStream}

\* The most records a row loop reads.
MaxRows == 2

\* The filters of the ragged runs and the cells of their rows, which are of
\* every length up to MaxRowLen.
RaggedTexts == {<<NullTest(FnIsNull, ColB)>>, <<NullTest(FnIsNotNull, ColName)>>,
                <<Comparison(ColB, 4, <<"1">>)>>}
RaggedCells == {<<>>, <<"1">>}

\* The tokens of a column list.
ColumnTokens ==
    {<<"n", "a", "m", "e">>, <<"b">>, <<"0">>, <<"2">>, <<"7">>, <<" ", "1">>,
     <<"n", "m", "a", "e">>, <<"N", "A", "M", "E">>, <<"z", "z", "z", "z", "z">>,
     <<>>, <<"0", ".", ".", "2">>, <<"0", ".", ".", "=", "2">>, <<"1", ".", ".", "=", "1">>,
     <<"2", ".", ".", "0">>, <<"x", ".", ".", "1">>, <<"0", ".", ".", "9">>}

\* A header whose names read as indices of other positions.
NumericHeader == <<<<"1">>, <<"0">>>>

\* The headers of column selection: those of the filter, the empty one and
\* the one with numeric names.
SelectionHeaders == Headers \cup {<<>>, NumericHeader}

RECURSIVE JoinComma(_)
JoinComma(ts) ==
    IF Len(ts) = 1 THEN ts[1] ELSE ts[1] \o <<",">> \o JoinComma(Tail(ts))

ColumnLists ==
    {JoinComma(ts) : ts \in UNION {[1..n -> ColumnTokens] : n \in 1..MaxTokens}}

\* The most records of a file.
MaxRecords == 3

\* The records of the files run_summary reads: a header with the name b at
\* two positions, rows as long as it with and without a null cell, and a
\* short row.
RunRecords ==
    {<<<<"b">>, <<"n", "a", "m", "e">>, <<"b">>>>,
     <<<<"1">>, <<"x">>, <<"2">>>>,
     <<<<>>, <<"x">>, <<"2">>>>,
     <<<<"1">>>>}
RunFiles == UNION {[1..n -> RunRecords] : n \in 0..MaxRecords}

\* The --cols and --where options of the invocations: absent, resolvable
\* against some header, and in error.
RunColumnLists ==
    {None, Some(<<"b">>), Some(<<"2">>), Some(<<"1", ".", ".", "3">>),
     Some(<<"0", ",", "z", "z">>)}
RunFilters ==
    {None, Some(<<"b", " ", ">", " ", "1">>),
     Some(<<"c", "o", "l", "2", " ", ">", " ", "1">>),
     Some(<<"z", "z", " ", "=", "=", " ", "1">>)}
RunArgs ==
    [cols : RunColumnLists, where_clause : RunFilters, no_header : BOOLEAN]

(***************************************************************************)
(* The operations                                                          *)
(***************************************************************************)
Init ==
    /\ cells = <<>>
    /\ acc = NewColumnAccumulator(ColumnName)
    /\ phase = "streaming"
    /\ result = None
    /\ tcells = <<>>
    /\ tacc = NewColumnTypeAccumulator(ColumnName)
    /\ schema = None
    /\ headers = <<>>
    /\ pieces = <<>>
    /\ expr_str = <<>>
    /\ filter = None
    /\ record = <<>>
    /\ verdict = None
    /\ cols_str = <<>>
    /\ selection = None
    /\ cell_text = <<>>
    /\ classified = None
    /\ command = "none"
    /\ rows = <<>>
    /\ cli_args = [cols |-> None, where_clause |-> None, no_header |-> FALSE]
    /\ reader = NewCsvReader(<<>>, FALSE)
    /\ run_pc = "start"
    /\ target_cols = <<>>
    /\ collector = <<>>
    /\ total_rows = 0
    /\ matched_rows = 0
    /\ events = <<>>
    /\ outcome = None

\* StatsCollector::add_record for the column: one more cell.
StatsAddValue(c, max) ==
    /\ phase = "streaming"
    /\ Len(cells) < max
    /\ cells' = Append(cells, c)
    /\ acc' = add_value(acc, c)
    /\ UNCHANGED <<phase, result, schemaVars, filterVars, columnVars, classVars, runVars, flowVars>>

\* StatsCollector::finalize for the column: it consumes the accumulator and
\* returns its ColumnStats, or panics in the sort.
StatsFinalize ==
    /\ phase = "streaming"
    /\ \/ /\ finalize_panics(acc)
          /\ phase' = "aborted"
          /\ result' = None
       \/ /\ ~finalize_panics(acc)
          /\ phase' = "finalized"
          /\ \E iter_order \in IterOrders(DOMAIN acc.value_counts) :
                result' = Some(finalize_stats(acc, iter_order))
    /\ UNCHANGED <<cells, acc, schemaVars, filterVars, columnVars, classVars, runVars, flowVars>>

\* StatsCollector::add_record along a given row stream: its next cell.
StatsFollow(stream) ==
    /\ phase = "streaming"
    /\ Len(cells) < Len(stream)
    /\ cells = SubSeq(stream, 1, Len(cells))
    /\ cells' = Append(cells, stream[Len(cells) + 1])
    /\ acc' = add_value(acc, stream[Len(cells) + 1])
    /\ UNCHANGED <<phase, result, schemaVars, filterVars, columnVars, classVars, runVars, flowVars>>

\* SchemaInferrer::add_record for the column: one more cell.
SchemaAddValue(c, max) ==
    /\ ~schema.some
    /\ Len(tcells) < max
    /\ tcells' = Append(tcells, c)
    /\ tacc' = schema_add_value(tacc, c)
    /\ UNCHANGED <<schema, statsVars, filterVars, columnVars, classVars, runVars, flowVars>>

\* SchemaInferrer::finalize for the column.
SchemaFinalize ==
    /\ ~schema.some
    /\ schema' = Some(finalize_schema(tacc))
    /\ UNCHANGED <<tcells, tacc, statsVars, filterVars, columnVars, classVars, runVars, flowVars>>

\* Filter::parse, once per invocation, against one of the headers hdrs and
\* on the text written from one of the fragment sequences texts.
FilterParse(hdrs, texts) ==
    /\ ~filter.some
    /\ \E hdr \in hdrs, ps \in texts :
          /\ headers' = hdr
          /\ pieces' = ps
          /\ expr_str' = Flatten(ps)
          /\ filter' = Some(Filter_parse(Flatten(ps), hdr))
    /\ UNCHANGED <<record, verdict, statsVars, schemaVars, columnVars, classVars, runVars, flowVars>>

\* Filter::matches of the compiled filter on one row.
FilterMatches(row) ==
    /\ filter.some
    /\ filter.v.ok
    /\ record' = row
    /\ verdict' = Some(Filter_matches(filter.v.v, row))
    /\ UNCHANGED <<headers, pieces, expr_str, filter, statsVars, schemaVars, columnVars, classVars, runVars, flowVars>>

\* Filter::matches on the first row handed to the compiled filter.
FirstMatches(row) ==
    /\ ~verdict.some
    /\ FilterMatches(row)

\* run_summary, one turn of its row loop after the filter was compiled: the
\* record is counted, dropped if the filter does not match it, and handed
\* to the collector otherwise, whose accumulator for the column col reads
\* the cell at the position StatsCollector::new found for it.
SummaryRow(row, col, max) ==
    /\ command \in {"none", "summary"}
    /\ filter.some /\ filter.v.ok
    /\ phase = "streaming"
    /\ Len(rows) < max
    /\ command' = "summary"
    /\ rows' = Append(rows, row)
    /\ record' = row
    /\ verdict' = Some(Filter_matches(filter.v.v, row))
    /\ IF Filter_matches(filter.v.v, row).v
       THEN /\ cells' = Append(cells, cell_at(row, position(headers, col)))
            /\ acc' = add_value(acc, cell_at(row, position(headers, col)))
       ELSE UNCHANGED <<cells, acc>>
    /\ UNCHANGED <<phase, result, headers, pieces, expr_str, filter,
                   schemaVars, columnVars, classVars, flowVars>>

\* run_schema up to its row loop: the header is read.
SchemaOpen(hdr) ==
    /\ command = "none"
    /\ ~filter.some
    /\ command' = "schema"
    /\ headers' = hdr
    /\ UNCHANGED <<rows, pieces, expr_str, filter, record, verdict,
                   statsVars, schemaVars, columnVars, classVars, flowVars>>

\* run_schema, one turn of its row loop: the record is handed to the
\* inferrer, whose accumulator number idx reads the cell at idx.
SchemaRow(row, col, max) ==
    /\ command = "schema"
    /\ ~schema.some
    /\ Len(rows) < max
    /\ rows' = Append(rows, row)
    /\ tcells' = Append(tcells, cell_at(row, position(headers, col)))
    /\ tacc' = schema_add_value(tacc, cell_at(row, position(headers, col)))
    /\ UNCHANGED <<command, schema, statsVars, filterVars, columnVars, classVars, flowVars>>

\* run_summary up to the header: the reader is opened on the file and
\* its header is read.
RunOpen(file, a) ==
    /\ run_pc = "start"
    /\ cli_args' = a
    /\ \E read \in {CsvReader_headers(NewCsvReader(file, a.no_header))} :
          /\ reader' = read.reader
          /\ headers' = read.headers
    /\ run_pc' = "opened"
    /\ events' = Append(events, "headers")
    /\ UNCHANGED <<pieces, expr_str, filter, record, verdict, columnVars, statsVars,
                   schemaVars, classVars, runVars, target_cols, collector,
                   total_rows, matched_rows, outcome>>

\* run_summary, the target columns: an error of parse_columns ends the
\* invocation.
RunSelect ==
    /\ run_pc = "opened"
    /\ \E overflow_checks \in BOOLEAN :
       \E r \in {resolve_columns(cli_args, headers, overflow_checks)} :
          /\ selection' = Some(r)
          /\ IF r.ok
             THEN /\ target_cols' = r.v
                  /\ run_pc' = "selected"
                  /\ UNCHANGED outcome
             ELSE /\ run_pc' = "failed"
                  /\ outcome' = Some(r)
                  /\ UNCHANGED target_cols
    /\ cols_str' = IF cli_args.cols.some THEN cli_args.cols.v ELSE cols_str
    /\ events' = IF cli_args.cols.some THEN Append(events, "parse_columns") ELSE events
    /\ UNCHANGED <<filterVars, statsVars, schemaVars, classVars, runVars,
                   cli_args, reader, collector, total_rows, matched_rows>>

\* run_summary, the filter: an error of Filter::parse ends the invocation.
RunCompile ==
    /\ run_pc = "selected"
    /\ \E r \in {compile_filter(cli_args, headers)} :
       /\ filter' = IF ~r.ok THEN Some(r)
                    ELSE IF r.v.some THEN Some(Ok(r.v.v))
                    ELSE None
       /\ IF r.ok
          THEN /\ run_pc' = "compiled"
               /\ UNCHANGED outcome
          ELSE /\ run_pc' = "failed"
               /\ outcome' = Some(r)
    /\ expr_str' = IF cli_args.where_clause.some THEN cli_args.where_clause.v ELSE expr_str
    /\ events' = IF cli_args.where_clause.some
                  THEN Append(events, "Filter::parse") ELSE events
    /\ UNCHANGED <<headers, pieces, record, verdict, columnVars, statsVars,
                   schemaVars, classVars, runVars, cli_args, reader, target_cols,
                   collector, total_rows, matched_rows>>

\* run_summary, the collector and the counters before the row loop.
RunCollect ==
    /\ run_pc = "compiled"
    /\ collector' = StatsCollector_new(target_cols, headers)
    /\ total_rows' = 0
    /\ matched_rows' = 0
    /\ run_pc' = "streaming"
    /\ events' = Append(events, "StatsCollector::new")
    /\ UNCHANGED <<filterVars, columnVars, statsVars, schemaVars, classVars, runVars,
                   cli_args, reader, target_cols, outcome>>

\* run_summary, one turn of the row loop on the next record of the reader.
RunRow ==
    /\ run_pc = "streaming"
    /\ reader.pos < Len(reader.file)
    /\ \E rec \in {reader.file[reader.pos + 1]} :
       \E st \in {summary_row([collector |-> collector, total_rows |-> total_rows,
                                matched_rows |-> matched_rows],
                               IF filter.some THEN Some(filter.v.v) ELSE None, rec)} :
       /\ reader' = [reader EXCEPT !.pos = reader.pos + 1]
       /\ record' = rec
       /\ verdict' = IF filter.some THEN Some(Filter_matches(filter.v.v, rec)) ELSE None
       /\ collector' = st.collector
       /\ total_rows' = st.total_rows
       /\ matched_rows' = st.matched_rows
    /\ events' = Append(events, "record")
    /\ UNCHANGED <<headers, pieces, expr_str, filter, columnVars, statsVars,
                   schemaVars, classVars, runVars, cli_args, run_pc, target_cols,
                   outcome>>

\* run_summary after the last record: the collector is finalized and the
\* counters and the statistics are rendered; a panic of a finalize aborts.
RunFinish ==
    /\ run_pc = "streaming"
    /\ reader.pos >= Len(reader.file)
    /\ IF \E k \in DOMAIN collector : finalize_panics(collector[k].acc)
       THEN /\ run_pc' = "failed"
            /\ outcome' = Some(Panic)
       ELSE /\ run_pc' = "done"
            /\ \E orders \in [DOMAIN collector ->
                                 UNION {IterOrders(DOMAIN collector[k].acc.value_counts) :
                                           k \in DOMAIN collector}] :
                  /\ \A k \in DOMAIN collector :
                        orders[k] \in IterOrders(DOMAIN collector[k].acc.value_counts)
                  /\ outcome' = Some(Ok([total_rows |-> total_rows,
                                         matched_rows |-> matched_rows,
                                         where_clause |-> cli_args.where_clause,
                                         stats |-> [k \in DOMAIN collector |->
                                                       finalize_stats(collector[k].acc, orders[k])]]))
    /\ events' = IF \E k \in DOMAIN collector : finalize_panics(collector[k].acc)
                  THEN Append(events, "finalize")
                  ELSE events \o <<"finalize", "render_summary">>
    /\ UNCHANGED <<filterVars, columnVars, statsVars, schemaVars, classVars, runVars,
                   cli_args, reader, target_cols, collector, total_rows, matched_rows>>

\* parse_columns, once per invocation, of a column list against a header,
\* in a build with or without overflow checks.
ParseColumns ==
    /\ ~selection.some
    /\ \E hdr \in SelectionHeaders, text \in ColumnLists, overflow_checks \in BOOLEAN :
          /\ headers' = hdr
          /\ cols_str' = text
          /\ selection' = Some(parse_columns(text, hdr, overflow_checks))
    /\ UNCHANGED <<pieces, expr_str, filter, record, verdict, statsVars, schemaVars, classVars, runVars, flowVars>>

\* parse_value and is_null, each applied once to one cell text.
Classify ==
    /\ ~classified.some
    /\ \E c \in CellStrings :
          /\ cell_text' = c
          /\ classified' = Some([dtype |-> parse_value(c).dtype,
                                 value |-> parse_value(c).value,
                                 null |-> is_null(c)])
    /\ UNCHANGED <<statsVars, schemaVars, filterVars, columnVars, runVars, flowVars>>

NextStats ==
    \/ \E c \in CellTexts : StatsAddValue(c, MaxCells)
    \/ StatsFinalize

NextSchema ==
    \/ \E c \in CellTexts : SchemaAddValue(c, MaxCells)
    \/ SchemaFinalize

NextTypes ==
    \/ \E c \in CellTexts : StatsAddValue(c, MaxPairCells)
    \/ StatsFinalize
    \/ \E c \in CellTexts : SchemaAddValue(c, MaxPairCells)
    \/ SchemaFinalize

NextFilter ==
    \/ FilterParse(Headers, Chains(WellFormedAtoms \cup OtherAtoms, MaxTerms))
    \/ \E row \in Rows : FilterMatches(row)

NextChain ==
    \/ FilterParse(Headers, Chains(WellFormedAtoms, MaxChain))
    \/ \E row \in Rows : FilterMatches(row)

NextColumns == ParseColumns

NextClassify == Classify

NextCompare ==
    \/ FilterParse(Headers, Comparisons)
    \/ \E row \in RowsOf(CompareCells) : FirstMatches(row)

NextIn ==
    \/ FilterParse(Headers, InCalls)
    \/ \E row \in RowsOf(InCells) : FirstMatches(row)

NextNumeric ==
    \/ \E c \in NumericTexts : StatsAddValue(c, MaxCells)
    \/ \E stream \in ExampleStreams : StatsFollow(stream)
    \/ StatsFinalize

NextRagged ==
    \/ command = "none" /\ FilterParse(Headers, RaggedTexts)
    \/ \E row \in RowsOf(RaggedCells) : SummaryRow(row, ColB, MaxRows)
    \/ \E hdr \in Headers : SchemaOpen(hdr)
    \/ \E row \in RowsOf(RaggedCells) : SchemaRow(row, ColB, MaxRows)

NextRun ==
    \/ \E file \in RunFiles, a \in RunArgs : RunOpen(file, a)
    \/ RunSelect
    \/ RunCompile
    \/ RunCollect
    \/ RunRow
    \/ RunFinish

NextQuoted ==
    \/ FilterParse(Headers, QuotedComparisons)
    \/ \E row \in RowsOf(QuotedCells) : FirstMatches(row)

NextNull ==
    \/ FilterParse(Headers, NullTests)
    \/ \E row \in RowsOf(NullCells) : FirstMatches(row)

SpecStats == Init /\ [][NextStats]_vars
SpecSchema == Init /\ [][NextSchema]_vars
SpecTypes == Init /\ [][NextTypes]_vars
SpecFilter == Init /\ [][NextFilter]_vars
SpecChain == Init /\ [][NextChain]_vars
SpecColumns == Init /\ [][NextColumns]_vars
SpecClassify == Init /\ [][NextClassify]_vars
SpecNull == Init /\ [][NextNull]_vars
SpecQuoted == Init /\ [][NextQuoted]_vars
SpecRun == Init /\ [][NextRun]_vars
SpecRagged == Init /\ [][NextRagged]_vars
SpecNumeric == Init /\ [][NextNumeric]_vars
SpecIn == Init /\ [][NextIn]_vars
SpecCompare == Init /\ [][NextCompare]_vars

(***************************************************************************)
(* Properties of the type folding and of the statistics pass               *)
(***************************************************************************)
\* The classes of the non-null cells of a stream.
NonNullTypes(stream) ==
    {parse_value(stream[i]).dtype : i \in {j \in 1..Len(stream) : ~is_null(stream[j])}}

\* The accumulator after a stream: add_value cell by cell.
RECURSIVE fold_cells(_)
fold_cells(stream) ==
    IF stream = <<>> THEN NewColumnAccumulator(ColumnName)
    ELSE add_value(fold_cells(SubSeq(stream, 1, Len(stream) - 1)),
                   stream[Len(stream)])

\* C1: a column whose non-null cells mix Boolean with Integer or Float, or
\* hold any String cell, finalizes to String; and once the running type is
\* String after some prefix of the stream, it is String after every later cell.
C1_MixCollapsesToString ==
    /\ phase = "finalized" =>
          LET types == NonNullTypes(cells) IN
          (\/ "String" \in types
           \/ ("Boolean" \in types /\ types \cap {"Integer", "Float"} # {}))
          => result.v.data_type = "String"
    /\ \A k \in 1..Len(cells) :
          fold_cells(SubSeq(cells, 1, k)).data_type = Some("String")
          => acc.data_type = Some("String")

\* C2: over the same cell stream the data_type the statistics accumulator
\* finalizes equals the inferred_type the type inferencer finalizes.
C2_StatsTypeEqualsSchemaType ==
    (result.some /\ schema.some /\ cells = tcells)
    => result.v.data_type = schema.v.inferred_type

\* The fields of two ColumnStats that a permutation of the rows must keep:
\* all of them, the top values as an unordered set.
SameStats(x, y) ==
    /\ [x EXCEPT !.top_values = None] = [y EXCEPT !.top_values = None]
    /\ x.top_values.some = y.top_values.some
    /\ x.top_values.some =>
          {x.top_values.v[i] : i \in 1..Len(x.top_values.v)}
          = {y.top_values.v[i] : i \in 1..Len(y.top_values.v)}

\* C3: the finalized statistics of a stream are those of every permutation
\* of it: every field equal, the top values equal as an unordered set.
C3_OrderInvariance ==
    phase = "finalized" =>
       \A p \in IterOrders(1..Len(cells)) :
          LET permuted == [i \in 1..Len(cells) |-> cells[p[i]]]
              other == fold_cells(permuted)
          IN /\ ~finalize_panics(other)
             /\ \A o \in IterOrders(DOMAIN other.value_counts) :
                   SameStats(result.v, finalize_stats(other, o))

\* C4: finalize never aborts, whatever cells the accumulator was fed.
C4_AggregatorNeverFails == phase # "aborted"

\* The class the count rule of the inferencer assigns to a stream, read off
\* the stream itself.
RuleType(stream) ==
    LET types == NonNullTypes(stream) IN
    IF types = {} THEN "String"
    ELSE IF types \subseteq {"Integer"} THEN "Integer"
    ELSE IF types \subseteq {"Integer", "Float"} THEN "Float"
    ELSE IF types \subseteq {"Boolean"} THEN "Boolean"
    ELSE "String"

\* C10: after any cell stream infer_type is String without non-null cells,
\* else Integer if all non-null cells are Integer, else Float if all are
\* Integer or Float, else Boolean if all are Boolean, else String; and this
\* is the inferred_type of the finalized ColumnSchema.
C10_InferTypeRule ==
    /\ infer_type(tacc) = RuleType(tcells)
    /\ schema.some => schema.v.inferred_type = RuleType(tcells)

\* Integers then a float finalize to Float.
C10_Witness ==
    /\ tcells = <<<<"1">>, <<"3">>, <<"2", ".", "5">>>>
    /\ schema.some
    /\ schema.v.inferred_type = "Float"
(***************************************************************************)
(* Properties of the filter engine                                         *)
(***************************************************************************)
\* The atoms of OtherAtoms no grammar rule recognizes: the empty text, a
\* bare name, a lone quote as literal or argument, an unclosed parenthesis,
\* a call without its second argument, an unterminated array, a lone quote
\* as array element, an invalid regex.
MalformedAtoms ==
    {<<>>,
     <<"n", "a", "m", "e">>,
     <<"n", "a", "m", "e", " ", "=", "=", " ", "\"">>,
     <<"(", "b", ">", "1">>,
     <<"c", "o", "n", "t", "a", "i", "n", "s", "(", "n", "a", "m", "e", ",", " ", "\"", ")">>,
     <<"c", "o", "n", "t", "a", "i", "n", "s", "(", "n", "a", "m", "e", ")">>,
     <<"i", "n", "(", "b", ",", "[", "5", ")">>,
     <<"i", "n", "(", "b", ",", "[", "\"", "]", ")">>,
     <<"m", "a", "t", "c", "h", "e", "s", "(", "n", "a", "m", "e", ",", "\"", "(", "\"", ")">>}

\* C5: Filter::parse returns a compiled filter, ColumnNotFound or
\* InvalidFilter for every text and header, never aborting; and a text that
\* is one unrecognized fragment yields one of the two errors.
C5_ParseIsTotal ==
    filter.some =>
       /\ filter.v.ok \/ filter.v.err \in {"InvalidFilter", "ColumnNotFound"}
       /\ (Len(pieces) = 1 /\ pieces[1] \in MalformedAtoms) => ~filter.v.ok

\* The column names stored in the nodes of an AST.
RECURSIVE AstColumns(_)
AstColumns(expr) ==
    IF expr.tag \in {"And", "Or"} THEN AstColumns(expr.l) \cup AstColumns(expr.r)
    ELSE IF expr.tag = "Not" THEN AstColumns(expr.e)
    ELSE {expr.col}

\* C6: every column name in a compiled AST is a key of the header map, whose
\* keys are the header names; so Filter::matches returns Ok of a boolean on
\* every row and resolves no column through the index-0 fallback.
C6_AstColumnsResolve ==
    /\ (filter.some /\ filter.v.ok) =>
          /\ DOMAIN filter.v.v.column_indices = Range(headers)
          /\ AstColumns(filter.v.v.expr) \subseteq DOMAIN filter.v.v.column_indices
    /\ verdict.some =>
          /\ verdict.v.ok
          /\ verdict.v.v \in BOOLEAN
          /\ \A col \in AstColumns(filter.v.v.expr) :
                column_index(col, filter.v.v.column_indices) = filter.v.v.column_indices[col]

\* A compiled call and comparison evaluated on a row shorter than the header.
C6_Witness ==
    /\ filter.some /\ filter.v.ok
    /\ filter.v.v.expr.tag = "And"
    /\ AstColumns(filter.v.v.expr) = {<<"b">>, <<"n", "a", "m", "e">>}
    /\ verdict.some
    /\ Len(record) < Len(headers)

\* The suggestion the claim asks of a ColumnNotFound error for a name: a
\* header equal to it ignoring case if there is one, else a header of least
\* edit distance if one is within distance 2.
SuggestionRight(e, hdr) ==
    LET lower == to_lowercase(e.name)
        dist(h) == levenshtein_distance(lower, to_lowercase(h))
        same == {h \in Range(hdr) : to_lowercase(h) = lower}
        near == {h \in Range(hdr) : dist(h) <= 2}
    IN
    IF same # {} THEN e.suggestion.some /\ e.suggestion.v \in same
    ELSE IF near # {}
         THEN /\ e.suggestion.some
              /\ e.suggestion.v \in near
              /\ \A h \in near : dist(e.suggestion.v) <= dist(h)
    ELSE TRUE

IsColumnNotFound(r) == r.some /\ ~r.v.ok /\ r.v.err = "ColumnNotFound"

\* C7: a ColumnNotFound error, of Filter::parse or of parse_columns, for a
\* name that has a header equal ignoring case or within edit distance 2,
\* carries that header as its suggestion.
C7_NotFoundCarriesSuggestion ==
    /\ IsColumnNotFound(filter) => SuggestionRight(filter.v, headers)
    /\ IsColumnNotFound(selection) => SuggestionRight(selection.v, headers)

\* C7 for column selection alone.
C7_SelectionCarriesSuggestion ==
    IsColumnNotFound(selection) => SuggestionRight(selection.v, headers)

\* The first (lowest, 0-based) position of a name in the header.
FirstPosition(hdr, col) ==
    (CHOOSE i \in DOMAIN hdr : hdr[i] = col /\ \A j \in 1..(i - 1) : hdr[j] # col) - 1

\* C8: the compiled filter and the statistics collector both resolve each
\* header name to its first position, and so read the same cell of a row.
C8_FirstPositionLookup ==
    /\ (filter.some /\ filter.v.ok) =>
          \A col \in Range(headers) :
             /\ position(headers, col) = FirstPosition(headers, col)
             /\ filter.v.v.column_indices[col] = FirstPosition(headers, col)
    /\ verdict.some =>
          \A col \in Range(headers) :
             cell_at(record, filter.v.v.column_indices[col])
             = cell_at(record, position(headers, col))

\* The first index of fragment op in a chain, or 0.
FirstPiece(ps, op) ==
    LET hits == {i \in 1..Len(ps) : ps[i] = op} IN
    IF hits = {} THEN 0 ELSE CHOOSE i \in hits : \A j \in hits : i <= j

\* The AST of a chain in which && binds tighter than ||: the chain is cut at
\* its first ||, else at its first &&, and an atom compiles on its own.
RECURSIVE PrecedenceAst(_, _)
PrecedenceAst(ps, columns) ==
    LET or_at == FirstPiece(ps, OrOp)
        and_at == FirstPiece(ps, AndOp)
        cut == IF or_at > 0 THEN or_at ELSE and_at
    IN
    IF cut = 0 THEN parse_expr(ps[1], columns).v
    ELSE [tag |-> IF or_at > 0 THEN "Or" ELSE "And",
          l |-> PrecedenceAst(SubSeq(ps, 1, cut - 1), columns),
          r |-> PrecedenceAst(SubSeq(ps, cut + 1, Len(ps)), columns)]

\* The value of a chain on a row when && binds tighter than ||: some group
\* between two || has all its atoms true.
AtomTrue(atom, rec, columns) == eval_expr(parse_expr(atom, columns).v, rec, columns)

PrecedenceValue(ps, rec, columns) ==
    LET bars == {0, Len(ps) + 1} \cup {i \in 1..Len(ps) : ps[i] = OrOp} IN
    \E lo, hi \in bars :
       /\ lo < hi
       /\ \A i \in (lo + 1)..(hi - 1) : i \notin bars
       /\ \A i \in (lo + 1)..(hi - 1) :
             ps[i] # AndOp => AtomTrue(ps[i], rec, columns)

\* C9: a text of atoms joined by && and || compiles to the AST cut at the
\* first top-level ||, else at the first top-level &&, so that on every row
\* its value is that of the reading where && binds tighter than ||; an
\* operator inside a quoted literal or inside parentheses cuts nothing.
C9_OperatorSplitting ==
    /\ filter.some =>
          /\ filter.v.ok
          /\ filter.v.v.expr = PrecedenceAst(pieces, column_indices(headers))
    /\ verdict.some =>
          verdict.v.v = PrecedenceValue(pieces, record, column_indices(headers))

\* A && B || C on a row where A is false and C is true.
C9_Witness ==
    /\ pieces = <<BGt1, AndOp, IsNullB, OrOp, NameEqX>>
    /\ headers = <<<<"n", "a", "m", "e">>, <<"b">>>>
    /\ filter.v.v.expr.tag = "Or"
    /\ filter.v.v.expr.l.tag = "And"
    /\ record = <<<<"x">>>>
    /\ verdict = Some(Ok(TRUE))
(***************************************************************************)
(* Properties of the value classifier                                      *)
(***************************************************************************)
\* C11: parse_value yields the Value Null for exactly the cells on which
\* is_null is true: those empty after trimming and those equal, ignoring
\* case, to null, na or n/a.
C11_NullExactlyOnNullCells ==
    classified.some => (classified.v.value = "Null" <=> classified.v.null)

\* The half of C11 that reads a Null value as a null cell.
C11_NullValueIsNullCell ==
    classified.some => (classified.v.value = "Null" => classified.v.null)
(***************************************************************************)
(* Properties of the evaluator                                             *)
(***************************************************************************)
\* A cell that is empty after trimming or is null, na or n/a in any case.
NullCell(c) ==
    LET t == trim(c) IN
    \/ t = <<>>
    \/ /\ Len(t) \in {2, 3, 4}
       /\ \E tok \in {<<"n", "u", "l", "l">>, <<"n", "a">>, <<"n", "/", "a">>} :
             /\ Len(tok) = Len(t)
             /\ \A i \in 1..Len(t) : LowerChar(t[i]) = tok[i]

\* The verdict of the compiled one-atom filter written as text on a row.
VerdictOf(text, hdr, row) == Filter_matches(Filter_parse(text, hdr).v, row).v

\* C12: on every row, shorter than the header or not, is_null(c) is the
\* negation of is_not_null(c), and is_null(c) is true exactly when the cell
\* of c is empty after trimming or is null, na or n/a in any case.
C12_NullTestsAreComplements ==
    verdict.some =>
       \A c \in Range(headers) :
          LET at == cell_at(record, filter.v.v.column_indices[c])
              null == VerdictOf(NullTest(FnIsNull, c), headers, record)
              not_null == VerdictOf(NullTest(FnIsNotNull, c), headers, record)
          IN /\ null = ~not_null
             /\ null = NullCell(at)
             /\ pieces = <<NullTest(FnIsNull, c)>> => verdict.v.v = NullCell(at)
             /\ pieces = <<NullTest(FnIsNotNull, c)>> => verdict.v.v = ~NullCell(at)

\* is_null(b) true on an upper-case NA and on a row without a cell for b.
C12_Witness ==
    /\ pieces = <<NullTest(FnIsNull, ColB)>>
    /\ headers = <<ColName, ColB>>
    /\ verdict = Some(Ok(TRUE))
    /\ record \in {<<<<"0">>, <<"N", "A">>>>, <<<<"0">>>>}
\* A text that is no number: after trimming, not an optional sign followed
\* by digits with at most one point, nor such a mantissa followed by e and
\* an optionally signed run of digits, nor inf, infinity or nan.
RECURSIVE CountOf(_, _)
CountOf(s, ch) ==
    IF s = <<>> THEN 0 ELSE (IF Head(s) = ch THEN 1 ELSE 0) + CountOf(Tail(s), ch)

PlainDecimal(m) ==
    /\ \A i \in 1..Len(m) : IsDigit(m[i]) \/ m[i] = "."
    /\ CountOf(m, ".") <= 1
    /\ \E i \in 1..Len(m) : IsDigit(m[i])

SignedDigits(e) ==
    LET u == IF e # <<>> /\ Head(e) \in {"+", "-"} THEN Tail(e) ELSE e IN
    u # <<>> /\ \A i \in 1..Len(u) : IsDigit(u[i])

NumberText(c) ==
    LET t == trim(c)
        u == IF t # <<>> /\ Head(t) \in {"+", "-"} THEN Tail(t) ELSE t
        es == {i \in 1..Len(u) : u[i] \in {"e", "E"}}
    IN
    \/ to_lowercase(u) \in {<<"i", "n", "f">>, <<"n", "a", "n">>,
                             <<"i", "n", "f", "i", "n", "i", "t", "y">>}
    \/ PlainDecimal(u)
    \/ \E i \in es : PlainDecimal(SubSeq(u, 1, i - 1)) /\ SignedDigits(SubSeq(u, i + 1, Len(u)))

\* C13: a comparison of a column with a numeric literal, under each of the
\* six operators, compiles to that operator with a number as its value, and
\* on a row whose cell for the column is no number it evaluates to Ok(false).
C13_MismatchIsFalse ==
    /\ filter.some =>
          \A c \in {ColName, ColB}, k \in 1..Len(CompareOps), lit \in NumericLiterals :
             pieces = <<Comparison(c, k, lit)>> =>
                /\ filter.v.ok
                /\ filter.v.v.expr.tag = "Compare"
                /\ filter.v.v.expr.col = c
                /\ filter.v.v.expr.op = CompareOps[k].op
                /\ filter.v.v.expr.val.num
    /\ verdict.some =>
          LET at == cell_at(record, filter.v.v.column_indices[filter.v.v.expr.col]) IN
          ~NumberText(at) => verdict = Some(Ok(FALSE))

\* b != 1 on a row whose cell for b is the text x.
C13_Witness ==
    /\ headers = <<ColName, ColB>>
    /\ pieces = <<Comparison(ColB, 2, <<"1">>)>>
    /\ filter.v.v.expr.op = "Ne"
    /\ record = <<<<"1">>, <<"x">>>>
    /\ verdict = Some(Ok(FALSE))
\* C14: in(c, [e1, ..., ek]) compiles and is true on a row exactly when the
\* raw cell of c equals one of the elements as written, quotes removed,
\* whatever their text: with a comma inside the quotes, or empty.
C14_InIsMembership ==
    \A c \in {ColName, ColB}, elems \in ElementLists :
       pieces = <<InCall(c, elems)>> =>
          /\ filter.v.ok
          /\ verdict.some =>
                LET at == cell_at(record, filter.v.v.column_indices[c]) IN
                verdict.v.v = (\E k \in 1..Len(elems) : elems[k].text = at)

\* C14 for the elements that neither are empty nor hold a comma.
C14_PlainElementsAreMembership ==
    \A c \in {ColName, ColB}, elems \in ElementLists :
       (/\ pieces = <<InCall(c, elems)>>
        /\ \A k \in 1..Len(elems) : elems[k].text \in {<<"5">>, <<"x">>}) =>
          /\ filter.v.ok
          /\ verdict.some =>
                LET at == cell_at(record, filter.v.v.column_indices[c]) IN
                verdict.v.v = (\E k \in 1..Len(elems) : elems[k].text = at)
(***************************************************************************)
(* Properties of the finalized statistics                                  *)
(***************************************************************************)
\* The positions of the non-null cells of a stream whose trimmed text is v.
Occurrences(stream, v) ==
    {i \in 1..Len(stream) : ~is_null(stream[i]) /\ trim(stream[i]) = v}

FirstSeen(stream, v) ==
    CHOOSE i \in Occurrences(stream, v) : \A j \in Occurrences(stream, v) : i <= j

\* The top values list at most TopK distinct trimmed non-null values with
\* their counts, by non-increasing count, and no value left out has a
\* larger count than a listed one.
TopByCount(stream, top) ==
    LET seen == {trim(stream[i]) : i \in {j \in 1..Len(stream) : ~is_null(stream[j])}} IN
    /\ Len(top) <= TopK
    /\ \A i \in 1..Len(top) :
          /\ top[i].value \in seen
          /\ top[i].n = Cardinality(Occurrences(stream, top[i].value))
    /\ \A i, j \in 1..Len(top) : i < j => top[i].value # top[j].value /\ top[i].n >= top[j].n
    /\ \A v \in seen :
          (\A i \in 1..Len(top) : top[i].value # v) =>
             \A i \in 1..Len(top) : Cardinality(Occurrences(stream, v)) <= top[i].n

\* C15: top_values lists at most 5 distinct trimmed non-null values with
\* their counts, by non-increasing count, none left out having a larger
\* count, and values of equal count stand in the order they were first seen.
C15_TopValuesFirstSeenOrder ==
    (phase = "finalized" /\ result.v.top_values.some) =>
       LET top == result.v.top_values.v IN
       /\ TopByCount(cells, top)
       /\ \A i, j \in 1..Len(top) :
             (i < j /\ top[i].n = top[j].n) =>
                FirstSeen(cells, top[i].value) < FirstSeen(cells, top[j].value)

\* C15 without the order of the values of equal count.
C15_TopValuesByCount ==
    (phase = "finalized" /\ result.v.top_values.some) =>
       TopByCount(cells, result.v.top_values.v)
\* The numbers a stream holds: the non-null cells that read as an f64, in
\* stream order.
RECURSIVE NumericBuffer(_)
NumericBuffer(stream) ==
    IF stream = <<>> THEN <<>>
    ELSE LET front == NumericBuffer(SubSeq(stream, 1, Len(stream) - 1))
             last == stream[Len(stream)]
         IN IF ~is_null(last) /\ parse_f64(trim(last)).ok
            THEN Append(front, parse_f64(trim(last)).v)
            ELSE front

\* The values in ascending order: position i holds the value with fewer
\* than i values below it and at least i values not above it.
Ascending(values) ==
    LET below(v) == Cardinality({j \in 1..Len(values) : FLt(values[j], v)})
        same(v) == Cardinality({j \in 1..Len(values) : values[j] = v})
    IN [i \in 1..Len(values) |->
          CHOOSE v \in Range(values) : below(v) < i /\ i <= below(v) + same(v)]

\* sorted[floor(r)] * (1 - w) + sorted[ceil(r)] * w for r = (p / 100) * (n - 1),
\* a value of weight 0 adding nothing, whether it is finite or not.
Blend(sorted, p) ==
    LET n == Len(sorted)
        floor_r == (p * (n - 1)) \div 100
        ceil_r == IF (p * (n - 1)) % 100 = 0 THEN floor_r ELSE floor_r + 1
        w == Fin(p * (n - 1) - 100 * floor_r, 100)
    IN IF w = Zero THEN sorted[floor_r + 1]
       ELSE FAdd(FMul(sorted[floor_r + 1], FSub(FromInt(1), w)),
                 FMul(sorted[ceil_r + 1], w))

InterpolatedPercentiles(stream, stats) ==
    LET buffer == NumericBuffer(stream)
        sorted == Ascending(buffer)
        n == Len(buffer)
    IN
    /\ stats.median.some = (n > 0)
    /\ stats.p25.some = (n > 0)
    /\ stats.p75.some = (n > 0)
    /\ n > 0 =>
          /\ stats.p25.v = Blend(sorted, 25)
          /\ stats.median.v = Blend(sorted, 50)
          /\ stats.p75.v = Blend(sorted, 75)
          /\ \A p \in {25, 50, 75} :
                /\ (p * (n - 1)) \div 100 \in 0..(n - 1)
                /\ (p * (n - 1) + 99) \div 100 \in 0..(n - 1)

\* C16: median, p25 and p75 are absent exactly when no numeric value was
\* buffered; otherwise each is the blend of the values at ranks floor(r) and
\* ceil(r) of the ascending buffer, r = (p/100)*(n-1), weighted 1-w and w
\* with w = r - floor(r), both ranks within the buffer; and the values
\* 10, 20, 30, 40 give 17.5, 25 and 32.5.
C16_InterpolatedPercentiles ==
    phase = "finalized" =>
       /\ InterpolatedPercentiles(cells, result.v)
       /\ cells = QuartileStream =>
             /\ result.v.p25.v = Fin(35, 2)
             /\ result.v.median.v = Fin(25, 1)
             /\ result.v.p75.v = Fin(65, 2)

\* The quartiles of 10, 20, 30, 40 finalized.
C16_Witness ==
    /\ phase = "finalized"
    /\ cells = QuartileStream
    /\ result.v.p25 = Some(Fin(35, 2))
\* The sum of the values and of their squares.
RECURSIVE SumOf(_)
SumOf(values) == IF values = <<>> THEN Zero ELSE FAdd(Head(values), SumOf(Tail(values)))

RECURSIVE SumOfSquares(_)
SumOfSquares(values) ==
    IF values = <<>> THEN Zero
    ELSE FAdd(FMul(Head(values), Head(values)), SumOfSquares(Tail(values)))

\* sqrt((sum of squares - (sum)^2 / n) / (n - 1))
SampleStd(values) ==
    LET n == FromInt(Len(values))
        sum == SumOf(values)
    IN FSqrt(FDiv(FSub(SumOfSquares(values), FDiv(FMul(sum, sum), n)),
                  FSub(n, FromInt(1))))

\* std is absent with at most one numeric value, else their sample deviation.
StdOfNumbers(stream, stats) ==
    LET values == NumericBuffer(stream) IN
    IF Len(values) <= 1 THEN ~stats.std.some
    ELSE stats.std = Some(SampleStd(values))

\* C17 as stated: std is absent when the column has at most one numeric
\* value and is otherwise the Bessel-corrected sample standard deviation
\* of its numeric values, whatever type the column finalizes to.
C17_StdOfEveryColumn ==
    phase = "finalized" => StdOfNumbers(cells, result.v)

\* C17: in a column finalized as Integer or Float, std is absent when the
\* column has at most one numeric value and is otherwise the Bessel-corrected
\* sample standard deviation sqrt((sum of squares - (sum)^2/n)/(n-1)) of its
\* numeric values; in a column finalized as Boolean or String std is
\* absent.  For 2, 4, 4, 4, 5, 5, 7, 9 it is the root of 32/7, between
\* 2.138 and 2.139.
C17_StdOfNumericColumn ==
    phase = "finalized" =>
       /\ IF result.v.data_type \in {"Integer", "Float"}
          THEN StdOfNumbers(cells, result.v)
          ELSE ~result.v.std.some
       /\ cells = DeviationStream =>
             LET std == result.v.std.v IN
             /\ std.k = "sqrt"
             /\ 2138 * 2138 * std.d <= std.n * 1000000
             /\ std.n * 1000000 <= 2139 * 2139 * std.d

\* The deviation of 2, 4, 4, 4, 5, 5, 7, 9 finalized.
C17_Witness ==
    /\ phase = "finalized"
    /\ cells = DeviationStream
    /\ result.v.data_type = "Integer"
    /\ result.v.std.some
\* The numbers of the cells of a stream that the classifier classifies as
\* Integer or Float, in stream order.
RECURSIVE ClassifiedNumbers(_)
ClassifiedNumbers(stream) ==
    IF stream = <<>> THEN <<>>
    ELSE LET front == ClassifiedNumbers(SubSeq(stream, 1, Len(stream) - 1))
             last == stream[Len(stream)]
         IN IF parse_value(last).value \in {"Integer", "Float"}
            THEN Append(front, parse_f64(trim(last)).v)
            ELSE front

\* The numeric aggregates are those of the given numbers.
AggregatesOf(a, numbers) ==
    /\ a.numeric_values = numbers
    /\ a.numeric_count = Len(numbers)
    /\ a.sum = SumOf(numbers)
    /\ a.sum_squares = SumOfSquares(numbers)
    /\ a.min_numeric.some = (numbers # <<>>)
    /\ a.max_numeric.some = (numbers # <<>>)
    /\ numbers # <<>> =>
          /\ a.min_numeric.v \in Range(numbers)
          /\ a.max_numeric.v \in Range(numbers)
          /\ \A i \in 1..Len(numbers) :
                ~FLt(numbers[i], a.min_numeric.v) /\ ~FGt(numbers[i], a.max_numeric.v)

\* C18: the numeric aggregates of a column (sum, sum of squares, numeric
\* count, numeric min and max, percentile buffer) are those of exactly the
\* cells classified Integer or Float, and a String-classified non-null cell
\* makes the running type String.
C18_OnlyClassifiedNumbersCount ==
    /\ AggregatesOf(acc, ClassifiedNumbers(cells))
    /\ (\E i \in 1..Len(cells) :
           ~is_null(cells[i]) /\ parse_value(cells[i]).dtype = "String")
       => acc.data_type = Some("String")

\* The aggregates are those of the cells that read as an f64, finite or not.
C18_AggregatesOfParsedCells ==
    AggregatesOf(acc, NumericBuffer(cells))
(***************************************************************************)
(* Properties of the row loops                                             *)
(***************************************************************************)
\* A row brought to n cells: cut after n, filled up with empty cells.
Normal(row, n) == [i \in 1..n |-> IF i <= Len(row) THEN row[i] ELSE <<>>]

\* The cells of column number idx (0-based) in the rows, brought to n
\* cells, that a filter matches (every row when keep_all).
RECURSIVE ColumnOf(_, _, _, _, _)
ColumnOf(stream, idx, n, f, keep_all) ==
    IF stream = <<>> THEN <<>>
    ELSE LET front == ColumnOf(SubSeq(stream, 1, Len(stream) - 1), idx, n, f, keep_all)
             last == Normal(stream[Len(stream)], n)
         IN IF keep_all \/ Filter_matches(f, last).v
            THEN Append(front, last[idx + 1])
            ELSE front

RECURSIVE fold_schema(_)
fold_schema(stream) ==
    IF stream = <<>> THEN NewColumnTypeAccumulator(ColumnName)
    ELSE schema_add_value(fold_schema(SubSeq(stream, 1, Len(stream) - 1)),
                          stream[Len(stream)])

\* C19: the filter, the statistics accumulator and the type inferencer
\* treat every row as the row brought to the length of the header: a
\* missing cell reads as the empty string, is null and counts as null, the
\* cells beyond the header change neither verdict nor accumulator, and
\* matches returns Ok on every row.
C19_RaggedRows ==
    LET n == Len(headers)
        idx == position(headers, ColB)
    IN
    /\ command = "summary" =>
          LET fed == ColumnOf(rows, idx, n, filter.v.v, FALSE) IN
          /\ verdict.v.ok
          /\ verdict.v = Filter_matches(filter.v.v, Normal(record, n))
          /\ cells = fed
          /\ acc = fold_cells(fed)
          /\ \A c \in Range(headers) :
                filter.v.v.column_indices[c] >= Len(record) =>
                   VerdictOf(NullTest(FnIsNull, c), headers, record)
    /\ command = "schema" =>
          LET fed == ColumnOf(rows, idx, n, None, TRUE) IN
          /\ tcells = fed
          /\ tacc = fold_schema(fed)
          /\ \A k \in 1..Len(rows) : Len(rows[k]) <= idx => is_null(tcells[k])

\* A row without a cell for b passes is_null(b) and is counted as a null;
\* a row with a cell beyond the header is counted by its cell for b.
C19_Witness ==
    /\ command = "summary"
    /\ headers = <<ColName, ColB>>
    /\ pieces = <<NullTest(FnIsNotNull, ColName)>>
    /\ rows = <<<<<<"1">>>>, <<<<"1">>, <<"1">>, <<"1">>>>>>
    /\ cells = <<<<>>, <<"1">>>>
    /\ acc.null_count = 1
(***************************************************************************)
(* Properties of column selection                                          *)
(***************************************************************************)
\* The text of an index and of a range, as a user writes them.
IndexText(i) == nat_text(i)
RangeText(a, b, inclusive) ==
    nat_text(a) \o <<".", ".">> \o (IF inclusive THEN <<"=">> ELSE <<>>) \o nat_text(b)

\* The index values the tokens of the column lists are written with.
Indices == 0..9

\* The error of an index beyond the header: the index and the last valid
\* one, which is no wrapped value.
OutOfRange(r, index, hdr) ==
    /\ ~r.ok /\ r.err = "ColumnIndexOutOfRange"
    /\ r.index = index
    /\ r.max = Len(hdr) - 1
    /\ ~r.wrapped

\* C20: for every header, the empty one included, a column list that is a
\* bare index i >= the header length, an inclusive range a..=b with
\* b >= that length, or an exclusive range a..b with b > that length makes
\* parse_columns return ColumnIndexOutOfRange with the offending index and
\* max = length - 1, without underflow or abort; and the names parse_columns
\* returns are names of the header.
C20_OutOfRangeIsReported ==
    selection.some =>
       LET r == selection.v
           n == Len(headers)
       IN
       /\ ~r.ok => r.err # "panic"
       /\ r.ok => \A k \in 1..Len(r.v) : r.v[k] \in Range(headers)
       /\ \A i \in Indices :
             (cols_str = IndexText(i) /\ i >= n) => OutOfRange(r, i, headers)
       /\ \A a, b \in Indices :
             /\ (cols_str = RangeText(a, b, TRUE) /\ b >= n) => OutOfRange(r, b, headers)
             /\ (cols_str = RangeText(a, b, FALSE) /\ b > n) => OutOfRange(r, b - 1, headers)

\* C20 for the headers that have a column.
C20_OutOfRangeOfNonEmptyHeader ==
    (selection.some /\ headers # <<>>) =>
       LET r == selection.v
           n == Len(headers)
       IN
       /\ ~r.ok => r.err # "panic"
       /\ r.ok => \A k \in 1..Len(r.v) : r.v[k] \in Range(headers)
       /\ \A i \in Indices :
             (cols_str = IndexText(i) /\ i >= n) => OutOfRange(r, i, headers)
       /\ \A a, b \in Indices :
             /\ (cols_str = RangeText(a, b, TRUE) /\ b >= n) => OutOfRange(r, b, headers)
             /\ (cols_str = RangeText(a, b, FALSE) /\ b > n) => OutOfRange(r, b - 1, headers)

(***************************************************************************)
(* Properties of column selection: the resolved list                       *)
(***************************************************************************)
\* The header names at the 0-based positions from..to.
HeaderSpan(hdr, from, to) ==
    [k \in 1..(IF to >= from THEN to - from + 1 ELSE 0) |-> hdr[from + k]]

\* What one written token selects of a header: the names of a range, the
\* name at an index, the token itself when it is a header name; None when
\* it selects nothing (a position beyond the header, an unknown name).
TokenSelects(token, hdr) ==
    LET n == Len(hdr) IN
    IF \E a, b \in Indices : token = RangeText(a, b, TRUE)
    THEN LET ab == CHOOSE ab \in Indices \X Indices : token = RangeText(ab[1], ab[2], TRUE) IN
         IF ab[2] < n THEN Some(HeaderSpan(hdr, ab[1], ab[2])) ELSE None
    ELSE IF \E a, b \in Indices : token = RangeText(a, b, FALSE)
    THEN LET ab == CHOOSE ab \in Indices \X Indices : token = RangeText(ab[1], ab[2], FALSE) IN
         IF ab[2] <= n THEN Some(HeaderSpan(hdr, ab[1], ab[2] - 1)) ELSE None
    ELSE IF \E i \in Indices : token = IndexText(i)
    THEN LET i == CHOOSE i \in Indices : token = IndexText(i) IN
         IF i < n THEN Some(<<hdr[i + 1]>>) ELSE None
    ELSE IF token \in Range(hdr) THEN Some(<<token>>)
    ELSE None

\* The written tokens of a column list: trimmed, the empty ones left out.
RECURSIVE WrittenTokens(_)
WrittenTokens(pieces_of_list) ==
    IF pieces_of_list = <<>> THEN <<>>
    ELSE (IF trim(Head(pieces_of_list)) = <<>> THEN <<>>
          ELSE <<trim(Head(pieces_of_list))>>) \o WrittenTokens(Tail(pieces_of_list))

\* The selections of the tokens one after the other.
RECURSIVE SelectedInOrder(_, _)
SelectedInOrder(tokens, hdr) ==
    IF tokens = <<>> THEN <<>>
    ELSE TokenSelects(Head(tokens), hdr).v \o SelectedInOrder(Tail(tokens), hdr)

\* C21: the result of parse_columns lists, in the order the tokens were
\* written, the header names each comma-separated token selects: an
\* unsigned integer i selects header[i] (the index is tried before the
\* name), a..b selects header[a] to header[b-1], a..=b selects header[a] to
\* header[b], any other token selects itself only if it is a header name;
\* every returned name is an element of the header.
C21_SelectionResolution ==
    selection.some =>
       LET r == selection.v
           tokens == WrittenTokens(split_comma(cols_str))
           selectable == \A k \in 1..Len(tokens) : TokenSelects(tokens[k], headers).some
       IN
       /\ r.ok <=> selectable
       /\ r.ok => /\ r.v = SelectedInOrder(tokens, headers)
                  /\ \A k \in 1..Len(r.v) : r.v[k] \in Range(headers)

\* A list of an index and a range resolved against the header whose names
\* read as the indices of the other positions.
C21_Witness ==
    /\ selection.some /\ selection.v.ok
    /\ headers = NumericHeader
    /\ cols_str = <<"0", ",", "0", ".", ".", "2">>
    /\ selection.v.v = <<<<"1">>, <<"1">>, <<"0">>>>

(***************************************************************************)
(* Properties of the type inferencer: sample values                        *)
(***************************************************************************)
\* The distinct non-null cells of a stream in first-seen order.
RECURSIVE DistinctNonNull(_, _)
DistinctNonNull(stream, seen) ==
    IF stream = <<>> THEN seen
    ELSE IF is_null(Head(stream)) \/ Head(stream) \in Range(seen)
         THEN DistinctNonNull(Tail(stream), seen)
    ELSE DistinctNonNull(Tail(stream), Append(seen, Head(stream)))

\* C22: the finalized ColumnSchema carries sample_values, the distinct
\* non-null cells of the column in first-seen order without duplicates, cut
\* at a small constant cap; the list is empty when the column has no
\* non-null cell.
C22_SampleValues ==
    schema.some =>
       LET distinct == DistinctNonNull(tcells, <<>>) IN
       /\ "sample_values" \in DOMAIN schema.v
       /\ \E cap \in 1..(Len(distinct) + 1) :
             schema.v.sample_values = SubSeq(distinct, 1, IF cap < Len(distinct) THEN cap ELSE Len(distinct))

(***************************************************************************)
(* Properties of quoted literals in comparisons                            *)
(***************************************************************************)
\* C23: in a quoted right-hand literal a backslash-escaped double quote
\* denotes a double quote: c == "..." written with escaped quotes compiles
\* to the comparison of c with the denoted text, which holds no backslash,
\* and is true on a row whose cell for c is exactly that text.
C23_EscapedQuotes ==
    filter.some =>
       \A c \in {ColName, ColB}, lit \in QuoteLiterals :
          pieces = <<Comparison(c, 1, Quote(Escape(lit)))>> =>
             /\ filter.v.ok
             /\ filter.v.v.expr.tag = "Compare"
             /\ filter.v.v.expr.col = c
             /\ filter.v.v.expr.op = "Eq"
             /\ filter.v.v.expr.val = [num |-> FALSE, s |-> lit]
             /\ "\\" \notin Range(filter.v.v.expr.val.s)
             /\ (verdict.some /\ cell_at(record, filter.v.v.column_indices[c]) = lit)
                   => verdict = Some(Ok(TRUE))

\* C28: for every header column c, each of the six operators and a quoted
\* literal L, the filter c OP "L" compiles to Compare(c, OP, String(L)),
\* also when L holds operator characters: a two-character operator is not
\* split as its one-character prefix and an operator token inside the
\* quotes is not taken as the comparison operator.
C28_QuotedLiteralSplitting ==
    filter.some =>
       \A c \in {ColName, ColB}, k \in 1..Len(CompareOps),
          lit \in PlainLiterals \cup OperatorLiterals :
          pieces = <<Comparison(c, k, Quote(lit))>> =>
             /\ filter.v.ok
             /\ filter.v.v.expr.tag = "Compare"
             /\ filter.v.v.expr.col = c
             /\ filter.v.v.expr.op = CompareOps[k].op
             /\ filter.v.v.expr.val = [num |-> FALSE, s |-> lit]

(***************************************************************************)
(* Properties of run_summary                                               *)
(***************************************************************************)
\* The records the row loop has read so far, in order.
LoopRecords == SubSeq(reader.file, reader.pos - total_rows + 1, reader.pos)

\* Whether a record passes the filter of the invocation.
Passes(rec) == filter.some => Filter_matches(filter.v.v, rec).v

\* The cells of the passing records at a position, folded into a new
\* accumulator.
RECURSIVE FoldPassing(_, _, _)
FoldPassing(a, recs, idx) ==
    IF recs = <<>> THEN a
    ELSE FoldPassing(IF Passes(Head(recs)) THEN add_value(a, cell_at(Head(recs), idx)) ELSE a,
                     Tail(recs), idx)

\* C24: in run_summary a row the filter is false on leaves every column
\* accumulator unchanged; after any prefix of the rows matched_rows <=
\* total_rows, with equality when no filter is given; every target column
\* has an accumulator, which has seen exactly the matched_rows cells of the
\* passing rows; and in the finalized record count + null_count is
\* matched_rows.
C24_FilterGating ==
    /\ matched_rows <= total_rows
    /\ run_pc \in {"streaming", "done"} =>
          /\ ~cli_args.where_clause.some => matched_rows = total_rows
          /\ matched_rows = Cardinality({k \in DOMAIN LoopRecords : Passes(LoopRecords[k])})
          /\ Len(collector) = Len(target_cols)
          /\ \A k \in DOMAIN collector :
                /\ collector[k].acc.count = matched_rows
                /\ collector[k].acc =
                      FoldPassing(NewColumnAccumulator(target_cols[k]), LoopRecords,
                                  collector[k].idx)
    /\ run_pc = "done" =>
          /\ outcome.v.v.matched_rows = matched_rows
          /\ outcome.v.v.total_rows = total_rows
          /\ \A k \in DOMAIN target_cols :
                outcome.v.v.stats[k].count + outcome.v.v.stats[k].null_count = matched_rows

\* A finished run in which the filter passed one of two rows.
C24_Witness ==
    /\ run_pc = "done"
    /\ cli_args.where_clause.some
    /\ total_rows = 2 /\ matched_rows = 1
    /\ Len(collector) = 3
    /\ \A k \in DOMAIN collector :
          outcome.v.v.stats[k].count + outcome.v.v.stats[k].null_count = 1

\* The column list, or the filter text, of the invocation is in error
\* against the header read.
ColumnsInError ==
    cli_args.cols.some /\ ~parse_columns(cli_args.cols.v, headers, TRUE).ok
FilterInError ==
    cli_args.where_clause.some /\ ~Filter_parse(cli_args.where_clause.v, headers).ok

\* Nothing was streamed: the reader stands where reading the header left
\* it, no accumulator exists, no row was counted, nothing was rendered.
NothingStreamed ==
    /\ reader = CsvReader_headers(NewCsvReader(reader.file, cli_args.no_header)).reader
    /\ collector = <<>>
    /\ total_rows = 0 /\ matched_rows = 0
    /\ "record" \notin Range(events)
    /\ "render_summary" \notin Range(events)

\* The positions of a call among the calls made.
CallsOf(name) == {i \in DOMAIN events : events[i] = name}

\* C25: in run_summary an error of parse_columns or of Filter::parse ends
\* the invocation with that error before any row is read, before any
\* accumulator receives a value and without rendering; the column list is
\* resolved before the filter is compiled, and the filter is compiled
\* exactly once, before the first row is evaluated.
C25_CompileErrorsAreFatal ==
    /\ (run_pc \notin {"start", "opened"} /\ ColumnsInError) =>
          /\ run_pc = "failed"
          /\ outcome.some /\ ~outcome.v.ok
          /\ outcome.v \in {parse_columns(cli_args.cols.v, headers, oc) : oc \in BOOLEAN}
          /\ events = <<"headers", "parse_columns">>
          /\ NothingStreamed
    /\ (run_pc \notin {"start", "opened", "selected"} /\ ~ColumnsInError /\ FilterInError) =>
          /\ run_pc = "failed"
          /\ outcome = Some(Filter_parse(cli_args.where_clause.v, headers))
          /\ events = <<"headers">>
                        \o (IF cli_args.cols.some THEN <<"parse_columns">> ELSE <<>>)
                        \o <<"Filter::parse">>
          /\ NothingStreamed
    /\ \A i \in CallsOf("parse_columns"), j \in CallsOf("Filter::parse") : i < j
    /\ Cardinality(CallsOf("Filter::parse")) <= 1
    /\ CallsOf("record") # {} =>
          /\ cli_args.where_clause.some => Cardinality(CallsOf("Filter::parse")) = 1
          /\ \A i \in CallsOf("parse_columns") \cup CallsOf("Filter::parse"),
                j \in CallsOf("record") : i < j

\* A run whose column list resolved and whose filter names no column of
\* the header: it ended at the compilation.
C25_Witness ==
    /\ run_pc = "failed"
    /\ Len(reader.file) = 3
    /\ events = <<"headers", "parse_columns", "Filter::parse">>
    /\ outcome.v.err = "ColumnNotFound"
    /\ outcome.v.name = <<"z", "z">>
    /\ NothingStreamed

\* C26: with no_header the header read before the rows is col0..col(k-1)
\* for the k fields of the first record, the rows then yielded are all the
\* records of the file, the first one included, so that total_rows is the
\* number of records of the file; and reading the header again returns the
\* same header and consumes nothing.
C26_NoHeaderDeliversEveryRecord ==
    (cli_args.no_header /\ run_pc # "start") =>
       /\ headers = IF reader.file = <<>> THEN <<>>
                    ELSE [i \in 1..Len(reader.file[1]) |-> generated_name(i - 1)]
       /\ CsvReader_headers(reader) = [reader |-> reader, headers |-> headers]
       /\ run_pc \in {"opened", "selected", "compiled"} => reader.pos = 0
       /\ run_pc = "streaming" => reader.pos = total_rows
       /\ run_pc = "done" => total_rows = Len(reader.file)

\* C27: a column selected by its 0-based index i, as a bare index or as a
\* member of a range, is accumulated from the cells at position i of each
\* row, whatever the header: also when the name at position i occurs at an
\* earlier position too.
C27_IndexSelectsItsPosition ==
    run_pc \in {"streaming", "done"} =>
       /\ \A i \in Indices :
             cli_args.cols = Some(IndexText(i)) =>
                /\ Len(collector) = 1
                /\ collector[1].idx = i
                /\ collector[1].acc =
                      FoldPassing(NewColumnAccumulator(headers[i + 1]), LoopRecords, i)
       /\ \A a, b \in Indices :
             cli_args.cols = Some(RangeText(a, b, FALSE)) =>
                /\ Len(collector) = b - a
                /\ \A k \in DOMAIN collector :
                      /\ collector[k].idx = a + k - 1
                      /\ collector[k].acc =
                            FoldPassing(NewColumnAccumulator(headers[a + k]), LoopRecords,
                                        a + k - 1)

(***************************************************************************)
(* Properties of the type inferencer: the counters                         *)
(***************************************************************************)
\* The counters of a ColumnTypeAccumulator other than total_count.
KindCounters ==
    {"null_count", "integer_count", "float_count", "boolean_count", "string_count"}

\* C29: after any sequence of add_value calls total_count is the sum of
\* null_count, integer_count, float_count, boolean_count and string_count;
\* each call adds 1 to total_count and 1 to exactly one of the other five,
\* which is null_count for a null cell; the finalized ColumnSchema has
\* null_count <= total_count, and null_rate 0 when total_count is 0.
C29_TypeCounters ==
    /\ tacc = fold_schema(tcells)
    /\ tacc.total_count = tacc.null_count + tacc.integer_count + tacc.float_count
                             + tacc.boolean_count + tacc.string_count
    /\ tacc.total_count = Len(tcells)
    /\ \A k \in DOMAIN tcells :
          LET before == fold_schema(SubSeq(tcells, 1, k - 1))
              after == fold_schema(SubSeq(tcells, 1, k))
          IN
          /\ after.total_count = before.total_count + 1
          /\ after.name = before.name
          /\ \E c \in KindCounters :
                /\ after[c] = before[c] + 1
                /\ \A d \in KindCounters \ {c} : after[d] = before[d]
          /\ is_null(tcells[k]) => after.null_count = before.null_count + 1
    /\ schema.some =>
          /\ schema.v.null_count = tacc.null_count
          /\ schema.v.total_count = tacc.total_count
          /\ schema.v.null_count <= schema.v.total_count
          /\ schema.v.total_count = 0 => schema.v.null_rate = Zero

\* A finalized column of three cells, one of them null.
C29_Witness ==
    /\ schema.some
    /\ Len(tcells) = 3
    /\ is_null(tcells[2])
    /\ schema.v.total_count = 3
    /\ schema.v.null_count = 1

(***************************************************************************)
(* Properties of the statistics accumulator: consistency                   *)
(***************************************************************************)
\* The distinct trimmed non-null cells of a stream.
TrimmedNonNull(stream) == {trim(stream[k]) : k \in {j \in DOMAIN stream : ~is_null(stream[j])}}

\* The sum of the counts of a frequency table.
RECURSIVE SumCounts(_, _)
SumCounts(counts, keys) ==
    IF keys = {} THEN 0
    ELSE LET key == CHOOSE key \in keys : TRUE IN
         counts[key] + SumCounts(counts, keys \ {key})

\* C30: after any sequence of add_value calls null_count <= count; the keys
\* of the frequency table are the distinct-value set and are the distinct
\* trimmed non-null cells seen; the frequency counts sum to count -
\* null_count; numeric_count is the length of the percentile buffer and at
\* most count - null_count; min_len <= max_len and min_string <= max_string
\* whenever present; a null cell changes only count and null_count. In the
\* finalized record unique_count is the number of distinct trimmed non-null
\* values, and mean, sum and std are absent when data_type is String or
\* Boolean.
C30_AccumulatorConsistency ==
    /\ acc = fold_cells(cells)
    /\ acc.count = Len(cells)
    /\ acc.null_count <= acc.count
    /\ DOMAIN acc.value_counts = acc.unique_values
    /\ acc.unique_values = TrimmedNonNull(cells)
    /\ SumCounts(acc.value_counts, DOMAIN acc.value_counts) = acc.count - acc.null_count
    /\ acc.numeric_count = Len(acc.numeric_values)
    /\ acc.numeric_count <= acc.count - acc.null_count
    /\ acc.min_len.some = acc.max_len.some
    /\ acc.min_len.some => acc.min_len.v <= acc.max_len.v
    /\ acc.min_string.some = acc.max_string.some
    /\ acc.min_string.some => ~str_lt(acc.max_string.v, acc.min_string.v)
    /\ \A k \in DOMAIN cells :
          is_null(cells[k]) =>
             LET before == fold_cells(SubSeq(cells, 1, k - 1)) IN
             fold_cells(SubSeq(cells, 1, k)) =
                [before EXCEPT !.count = before.count + 1,
                               !.null_count = before.null_count + 1]
    /\ result.some =>
          /\ result.v.unique_count = Some(Cardinality(TrimmedNonNull(cells)))
          /\ result.v.data_type \in {"String", "Boolean"} =>
                /\ result.v.mean = None
                /\ result.v.sum = None
                /\ result.v.std = None

\* A finalized Boolean column: the same value twice around a null cell.
C30_Witness ==
    /\ result.some
    /\ cells = <<<<"t", "r", "u", "e">>, <<>>, <<"t", "r", "u", "e">>>>
    /\ result.v.data_type = "Boolean"
    /\ result.v.unique_count = Some(1)
    /\ result.v.null_count = 1
    /\ acc.value_counts[<<"t", "r", "u", "e">>] = 2
    /\ result.v.mean = None
====
